---------------------------- MODULE Spec2Model ----------------------------
(***************************************************************************)
(* Model of the parking-detection back end: the per-tile OBB merger        *)
(* (backend/obb_merger.py), the global geo merge and the tile loop of the  *)
(* pipeline orchestrator (backend/pipeline.py).                            *)
(*                                                                         *)
(* Geometry.  Coordinates are integers.  Every polygon the model feeds to  *)
(* the mergers is an axis-aligned rectangle given by its ring of vertices, *)
(* and the rectangles of the catalogue lie in horizontal bands that do not *)
(* touch each other, so that every connected part of a union of them is    *)
(* again a rectangle.  For such rings Shapely's area, intersection, union  *)
(* and distance are the closed-form expressions used below.  Thresholds    *)
(* are exact rationals; on these small integers the floating-point         *)
(* comparisons of the source agree with the exact ones.                    *)
(***************************************************************************)
EXTENDS Integers, Sequences, FiniteSets, TLC

\* Largest number of detections in one merge call / detector output.
MaxDets == 3

-----------------------------------------------------------------------------
(* Small helpers                                                           *)

Min2(a, b) == IF a <= b THEN a ELSE b
Max2(a, b) == IF a >= b THEN a ELSE b
Abs(a) == IF a < 0 THEN -a ELSE a

RECURSIVE SeqSum(_)
SeqSum(s) == IF s = <<>> THEN 0 ELSE Head(s) + SeqSum(Tail(s))

Range(s) == {s[i] : i \in DOMAIN s}

\* The elements of a finite set of integers as an increasing sequence.
RECURSIVE SortedSeq(_)
SortedSeq(S) ==
    IF S = {} THEN <<>>
    ELSE LET m == CHOOSE x \in S : \A y \in S : x <= y
         IN <<m>> \o SortedSeq(S \ {m})

\* All sequences over S of length at most n.
RECURSIVE SeqsUpTo(_, _)
SeqsUpTo(S, n) ==
    IF n = 0 THEN {<<>>}
    ELSE LET shorter == SeqsUpTo(S, n - 1)
         IN shorter \cup {Append(s, x) : s \in {t \in shorter : Len(t) = n - 1}, x \in S}

RECURSIVE Gcd(_, _)
Gcd(a, b) == IF b = 0 THEN a ELSE Gcd(b, a % b)

\* A confidence is a non-negative rational <<numerator, denominator>> in
\* lowest terms.
Rat(n, d) == LET g == Gcd(n, d) IN IF g = 0 THEN <<0, 1>> ELSE <<n \div g, d \div g>>

RECURSIVE RatSum(_)
RatSum(s) ==
    IF s = <<>> THEN <<0, 1>>
    ELSE LET r == RatSum(Tail(s))
         IN Rat(Head(s)[1] * r[2] + r[1] * Head(s)[2], Head(s)[2] * r[2])

\* sum(confidences) / len(confidences)
RatMean(s) == LET t == RatSum(s) IN Rat(t[1], t[2] * Len(s))

\* Products and quotients of non-negative rationals, and int() of one.
RatMul(a, b) == Rat(a[1] * b[1], a[2] * b[2])
RatDiv(a, b) == Rat(a[1] * b[2], a[2] * b[1])
RatInt(a) == a[1] \div a[2]

-----------------------------------------------------------------------------
(* Planar geometry on rings of integer vertices                            *)

\* A ring is a sequence of points <<x, y>>; the empty sequence stands for
\* "no polygon" (None) and for Shapely's empty polygon, which are both falsy.
NoPolygon == <<>>

\* Twice the signed area of a ring (shoelace).
RECURSIVE Shoelace2(_, _)
Shoelace2(ring, i) ==
    IF i >= Len(ring) THEN 0
    ELSE ring[i][1] * ring[i + 1][2] - ring[i + 1][1] * ring[i][2]
         + Shoelace2(ring, i + 1)

\* Polygon.area
PolyArea(ring) == IF Len(ring) < 4 THEN 0 ELSE Abs(Shoelace2(ring, 1)) \div 2

\* Polygon.bounds: (minx, miny, maxx, maxy)
PolyBounds(ring) ==
    LET xs == {ring[i][1] : i \in DOMAIN ring}
        ys == {ring[i][2] : i \in DOMAIN ring}
        lo(S) == CHOOSE v \in S : \A w \in S : v <= w
        hi(S) == CHOOSE v \in S : \A w \in S : v >= w
    IN <<lo(xs), lo(ys), hi(xs), hi(ys)>>

\* The ring of the rectangle with the given bounds, closed.
RectRing(b) ==
    <<<<b[1], b[2]>>, <<b[3], b[2]>>, <<b[3], b[4]>>, <<b[1], b[4]>>, <<b[1], b[2]>>>>

\* Polygon.is_valid, for the rings of the model (no ring crosses itself): a
\* ring that encloses no area is invalid.
IsValid(ring) == ring # NoPolygon /\ PolyArea(ring) > 0

\* poly.buffer(0): a valid polygon comes back as it is, a ring without area
\* becomes the empty polygon.
Buffer0(ring) == IF IsValid(ring) THEN ring ELSE NoPolygon

\* Overlap of the projections of two rectangles on one axis (negative: a gap).
AxisOverlap(lo1, hi1, lo2, hi2) == Min2(hi1, hi2) - Max2(lo1, lo2)

\* poly1.intersects(poly2): the closed rectangles share a point.
Intersects(p1, p2) ==
    LET a == PolyBounds(p1)
        b == PolyBounds(p2)
    IN /\ AxisOverlap(a[1], a[3], b[1], b[3]) >= 0
       /\ AxisOverlap(a[2], a[4], b[2], b[4]) >= 0

\* poly1.intersection(poly2).area
IntersectionArea(p1, p2) ==
    LET a == PolyBounds(p1)
        b == PolyBounds(p2)
        w == AxisOverlap(a[1], a[3], b[1], b[3])
        h == AxisOverlap(a[2], a[4], b[2], b[4])
    IN IF w > 0 /\ h > 0 THEN w * h ELSE 0

\* poly1.union(poly2).area
UnionArea(p1, p2) == PolyArea(p1) + PolyArea(p2) - IntersectionArea(p1, p2)

\* The square of poly1.distance(poly2).
Distance2(p1, p2) ==
    LET a == PolyBounds(p1)
        b == PolyBounds(p2)
        dx == Max2(0, -AxisOverlap(a[1], a[3], b[1], b[3]))
        dy == Max2(0, -AxisOverlap(a[2], a[4], b[2], b[4]))
    IN dx * dx + dy * dy

\* distance < max_distance
DistanceLess(p1, p2, maxd) == maxd > 0 /\ Distance2(p1, p2) < maxd * maxd

\* distance <= max_distance
DistanceLeq(p1, p2, maxd) == maxd >= 0 /\ Distance2(p1, p2) <= maxd * maxd


-----------------------------------------------------------------------------
(* Detection records                                                       *)

\* A pixel-space detection as the detector returns it.  An optional key of
\* the Python dict is a field holding the empty sequence when the key is
\* absent (or holds an empty list, which the source treats alike):
\*   bbox         <<x1, y1, x2, y2>>
\*   polygon      flat <<x1, y1, x2, y2, ...>>
\*   confidence   a rational
\*   merged_count <<n>> when the key is present
Det(bbox, polygon, conf) ==
    [bbox |-> bbox, polygon |-> polygon, confidence |-> conf, merged_count |-> <<>>]

\* d.get('merged_count', 1)
MergedCountOf(d) == IF d.merged_count = <<>> THEN 1 ELSE d.merged_count[1]

\* The merger's configuration: thresholds as exact fractions.
MergerConfig(iouN, iouD, ovN, ovD, maxd, enabled) ==
    [iou_num |-> iouN, iou_den |-> iouD, ov_num |-> ovN, ov_den |-> ovD,
     max_distance |-> maxd, enabled |-> enabled]

\* The singleton with a maximum distance of 150.
obb_merger_wide == MergerConfig(1, 10, 5, 100, 150, TRUE)

\* obb_merger = OBBMerger(iou_threshold=0.1, min_overlap_area=0.05, max_distance=50.0)
obb_merger == MergerConfig(1, 10, 5, 100, 50, TRUE)

-----------------------------------------------------------------------------
(* OBBMerger._detection_to_polygon                                         *)

\* coords = [(points[i], points[i+1]) for i in range(0, len(points)-1, 2)]
FlatToCoords(points) == [k \in 1..(Len(points) \div 2) |-> <<points[2 * k - 1], points[2 * k]>>]

\* Ensure polygon is closed
CloseRing(coords) ==
    IF Len(coords) > 0 /\ coords[1] # coords[Len(coords)]
    THEN Append(coords, coords[1]) ELSE coords

\* Polygon(coords): a linear ring needs at least 4 coordinates, otherwise the
\* constructor raises and the caller's except clause yields None.
MakePolygon(coords) == IF Len(coords) >= 4 THEN coords ELSE NoPolygon

detection_to_polygon(det) ==
    IF det.polygon # <<>>
    THEN IF Len(det.polygon) >= 6
         THEN LET coords == CloseRing(FlatToCoords(det.polygon))
              IN IF Len(coords) >= 3 THEN MakePolygon(coords) ELSE NoPolygon
         ELSE NoPolygon
    ELSE IF det.bbox # <<>>
         THEN IF Len(det.bbox) >= 4
              THEN MakePolygon(RectRing(det.bbox))
              ELSE NoPolygon
         ELSE NoPolygon

\* Lines 82-99 of merge_overlapping_detections: the polygon a detection
\* takes part in the merge with (repaired by buffer(0) when invalid), or
\* NoPolygon when it is skipped.
usable_polygon(det) ==
    LET poly0 == detection_to_polygon(det)
        poly == IF poly0 # NoPolygon /\ ~IsValid(poly0) THEN Buffer0(poly0) ELSE poly0
    IN IF poly # NoPolygon /\ IsValid(poly) /\ PolyArea(poly) > 0 THEN poly ELSE NoPolygon

\* polygons_with_data: the detections that are not skipped, in input order,
\* each with its polygon and its input index.
RECURSIVE polygons_with_data(_, _)
polygons_with_data(detections, idx) ==
    IF idx > Len(detections) THEN <<>>
    ELSE LET poly == usable_polygon(detections[idx])
             rest == polygons_with_data(detections, idx + 1)
         IN IF poly # NoPolygon
            THEN <<[polygon |-> poly, detection |-> detections[idx], index |-> idx]>> \o rest
            ELSE rest

-----------------------------------------------------------------------------
(* OBBMerger._polygons_overlap                                             *)

\* The classifier with a strict IoU comparison.
polygons_overlap_iou_strict(poly1, poly2, cfg) ==
    \/ /\ Intersects(poly1, poly2)
       /\ UnionArea(poly1, poly2) > 0
       /\ \/ IntersectionArea(poly1, poly2) * cfg.iou_den > cfg.iou_num * UnionArea(poly1, poly2)
          \/ IntersectionArea(poly1, poly2) * cfg.ov_den
                >= cfg.ov_num * Min2(PolyArea(poly1), PolyArea(poly2))
    \/ DistanceLeq(poly1, poly2, cfg.max_distance)

\* The classifier without the overlap-ratio rule.
polygons_overlap_iou_only(poly1, poly2, cfg) ==
    \/ /\ Intersects(poly1, poly2)
       /\ UnionArea(poly1, poly2) > 0
       /\ IntersectionArea(poly1, poly2) * cfg.iou_den >= cfg.iou_num * UnionArea(poly1, poly2)
    \/ DistanceLeq(poly1, poly2, cfg.max_distance)

polygons_overlap(poly1, poly2, cfg) ==
    LET intersection_area == IntersectionArea(poly1, poly2)
        union_area == UnionArea(poly1, poly2)
        min_area == Min2(PolyArea(poly1), PolyArea(poly2))
        by_overlap ==
            /\ Intersects(poly1, poly2)
            /\ union_area > 0
            /\ min_area > 0
            \* iou >= self.iou_threshold or overlap_ratio >= self.min_overlap_area
            /\ \/ intersection_area * cfg.iou_den >= cfg.iou_num * union_area
               \/ intersection_area * cfg.ov_den >= cfg.ov_num * min_area
    IN by_overlap \/ DistanceLeq(poly1, poly2, cfg.max_distance)

-----------------------------------------------------------------------------
(* OBBMerger._group_overlapping_polygons: union-find                       *)

\* find(x) with path compression: the root of x, and parent afterwards.
RECURSIVE find_root(_, _)
find_root(parent, x) == IF parent[x] = x THEN x ELSE find_root(parent, parent[x])

RECURSIVE compress(_, _, _)
compress(parent, x, root) ==
    IF parent[x] = x THEN parent
    ELSE compress([parent EXCEPT ![x] = root], parent[x], root)

find(parent, x) ==
    LET root == find_root(parent, x)
    IN [root |-> root, parent |-> compress(parent, x, root)]

\* A union that links the two indices themselves, not their roots.
union_without_find(parent, x, y) ==
    IF parent[x] # y THEN [parent EXCEPT ![x] = y] ELSE parent

union(parent, x, y) ==
    LET fx == find(parent, x)
        fy == find(fx.parent, y)
    IN IF fx.root # fy.root
       THEN [fy.parent EXCEPT ![fx.root] = fy.root]
       ELSE fy.parent

\* for i in range(n): for j in range(i + 1, n): if adjacent: union(i, j)
\* adj[i][j] is the adjacency test's answer for the pair.
RECURSIVE union_pairs(_, _, _, _)
union_pairs(parent, adj, i, j) ==
    LET n == Len(parent)
    IN IF i > n THEN parent
       ELSE IF j > n THEN union_pairs(parent, adj, i + 1, i + 2)
       ELSE union_pairs(IF adj[i][j] THEN union(parent, i, j) ELSE parent, adj, i, j + 1)

\* Group by root parent with every new root put in front of the roots seen
\* before it.
RECURSIVE groups_by_root_newest_first(_, _, _, _)
groups_by_root_newest_first(parent, idx, roots, groups) ==
    IF idx > Len(parent) THEN groups
    ELSE LET f == find(parent, idx)
             known == {k \in DOMAIN roots : roots[k] = f.root}
         IN IF known = {}
            THEN groups_by_root_newest_first(f.parent, idx + 1, <<f.root>> \o roots,
                                             <<<<idx>>>> \o groups)
            ELSE LET k == CHOOSE k \in known : TRUE
                 IN groups_by_root_newest_first(f.parent, idx + 1, roots,
                                                [groups EXCEPT ![k] = Append(@, idx)])

\* Group by root parent: a dict keyed by root, in insertion order.  A group
\* is the sequence of the positions (in polygons_with_data) of its members.
RECURSIVE groups_by_root(_, _, _, _)
groups_by_root(parent, idx, roots, groups) ==
    IF idx > Len(parent) THEN groups
    ELSE LET f == find(parent, idx)
             known == {k \in DOMAIN roots : roots[k] = f.root}
         IN IF known = {}
            THEN groups_by_root(f.parent, idx + 1, Append(roots, f.root),
                                Append(groups, <<idx>>))
            ELSE LET k == CHOOSE k \in known : TRUE
                 IN groups_by_root(f.parent, idx + 1, roots,
                                   [groups EXCEPT ![k] = Append(@, idx)])

group_by_adjacency(adj, n) ==
    IF n = 0 THEN <<>>
    ELSE groups_by_root(union_pairs([i \in 1..n |-> i], adj, 1, 2), 1, <<>>, <<>>)

group_overlapping_polygons(pwd, cfg) ==
    group_by_adjacency(
        [i \in DOMAIN pwd |-> [j \in DOMAIN pwd |->
            polygons_overlap(pwd[i].polygon, pwd[j].polygon, cfg)]],
        Len(pwd))

-----------------------------------------------------------------------------
(* unary_union and the choice of the largest part                          *)

\* Two rectangles lie in one part of the union when they share more than a
\* single point.
SamePart(a, b) ==
    LET w == AxisOverlap(a[1], a[3], b[1], b[3])
        h == AxisOverlap(a[2], a[4], b[2], b[4])
    IN w >= 0 /\ h >= 0 /\ (w > 0 \/ h > 0)

RECURSIVE PartOf(_, _)
PartOf(S, all) ==
    LET more == {b \in all \ S : \E a \in S : SamePart(a, b)}
    IN IF more = {} THEN S ELSE PartOf(S \cup more, all)

\* The rectangle covering a set of rectangles.
Cover(S) ==
    LET lo(k) == CHOOSE v \in {r[k] : r \in S} : \A r \in S : v <= r[k]
        hi(k) == CHOOSE v \in {r[k] : r \in S} : \A r \in S : v >= r[k]
    IN <<lo(1), lo(2), hi(3), hi(4)>>

\* The polygons as a collection, each its own part, nothing dissolved.
unary_union_no_dissolve(polygons) == {PolyBounds(polygons[i]) : i \in DOMAIN polygons}

\* unary_union(polygons): the parts of the union, each a rectangle (bounds).
\* One part is a Polygon, several are a MultiPolygon.
unary_union(polygons) ==
    LET all == {PolyBounds(polygons[i]) : i \in DOMAIN polygons}
    IN {Cover(PartOf({r}, all)) : r \in all}

RectArea(r) == (r[3] - r[1]) * (r[4] - r[2])

RectBefore(a, b) ==
    \/ a[1] < b[1]
    \/ a[1] = b[1] /\ a[2] < b[2]
    \/ a[1] = b[1] /\ a[2] = b[2] /\ a[3] < b[3]
    \/ a[1] = b[1] /\ a[2] = b[2] /\ a[3] = b[3] /\ a[4] <= b[4]

\* merged_poly.geoms[0]: the first part in the order of geoms, whatever its
\* area.
FirstPart(parts, geoms_order) ==
    IF geoms_order = "ascending"
    THEN CHOOSE p \in parts : \A q \in parts : RectBefore(p, q)
    ELSE CHOOSE p \in parts : \A q \in parts : RectBefore(q, p)

\* max(merged_poly.geoms, key=lambda p: p.area): the first part of largest
\* area in the order of geoms.  That order is GEOS's own; geoms_order says
\* from which end of the parts (ordered by their bounds) it starts.
LargestPart(parts, geoms_order) ==
    LET best == {p \in parts : \A q \in parts : RectArea(p) >= RectArea(q)}
    IN IF geoms_order = "ascending"
       THEN CHOOSE p \in best : \A q \in best : RectBefore(p, q)
       ELSE CHOOSE p \in best : \A q \in best : RectBefore(q, p)

GeomsOrders == {"ascending", "descending"}

\* list(merged_poly.exterior.coords) without the closing point
ExteriorCoords(ring) ==
    IF Len(ring) > 0 /\ ring[1] = ring[Len(ring)]
    THEN SubSeq(ring, 1, Len(ring) - 1) ELSE ring

\* polygon_flat: [x1, y1, x2, y2, ...]
RECURSIVE Flatten(_)
Flatten(coords) ==
    IF coords = <<>> THEN <<>>
    ELSE <<Head(coords)[1], Head(coords)[2]>> \o Flatten(Tail(coords))

\* OBBMerger._polygon_to_bbox
polygon_to_bbox(poly) == PolyBounds(poly)

-----------------------------------------------------------------------------
(* OBBMerger._merge_group                                                  *)

\* round(area_pixels * (0.05 ** 2), 2), in hundredths of a square metre; the
\* half rounds up for the areas of a tile.
RoundArea(area_pixels) == (area_pixels * 25 + 50) \div 100

\* group: a non-empty sequence of polygons_with_data items.  raises: the
\* union or the extraction of the boundary throws.
merge_group(group, raises, geoms_order) ==
    LET polygons == [i \in DOMAIN group |-> group[i].polygon]
        detections == [i \in DOMAIN group |-> group[i].detection]
    IN IF raises THEN detections[1]
       ELSE LET parts == unary_union(polygons)
                merged0 == RectRing(LargestPart(parts, geoms_order))
                merged_poly == IF IsValid(merged0) THEN merged0 ELSE Buffer0(merged0)
                coords == ExteriorCoords(merged_poly)
                confidences == [i \in DOMAIN detections |-> detections[i].confidence]
                merged_det == [detections[1] EXCEPT
                                  !.polygon = Flatten(coords),
                                  !.bbox = polygon_to_bbox(merged_poly),
                                  !.confidence = RatMean(confidences),
                                  !.merged_count = <<Len(group)>>]
            IN IF Len(coords) < 3 THEN detections[1]
               \* if 'area_sq_meters' in merged_det: the area of the merged polygon
               ELSE IF "area_sq_meters" \in DOMAIN merged_det
               THEN [merged_det EXCEPT
                        !.area_sq_meters = RoundArea(PolyArea(merged_poly))]
               ELSE merged_det

-----------------------------------------------------------------------------
(* OBBMerger.merge_overlapping_detections                                  *)

\* The groups of a merge call as sequences of input indices.
GroupsOfCall(detections, cfg) ==
    LET pwd == polygons_with_data(detections, 1)
        groups == group_overlapping_polygons(pwd, cfg)
    IN [g \in DOMAIN groups |-> [m \in DOMAIN groups[g] |-> pwd[groups[g][m]].index]]

\* The loop over the groups with every group, also a group of one, handed
\* to the group merger.
RECURSIVE merge_every_group(_, _, _, _, _)
merge_every_group(detections, pwd, groups, failing, geoms_order) ==
    IF groups = <<>> THEN <<>>
    ELSE LET group == [m \in DOMAIN Head(groups) |-> pwd[Head(groups)[m]]]
         IN <<merge_group(group, group[1].index \in failing, geoms_order)>>
            \o merge_every_group(detections, pwd, Tail(groups), failing, geoms_order)

\* Merge each group.  failing: the input indices of the first members of
\* the groups whose union throws.
RECURSIVE merge_each_group(_, _, _, _, _)
merge_each_group(detections, pwd, groups, failing, geoms_order) ==
    IF groups = <<>> THEN <<>>
    ELSE LET group == [m \in DOMAIN Head(groups) |-> pwd[Head(groups)[m]]]
             rest == merge_each_group(detections, pwd, Tail(groups), failing, geoms_order)
         IN IF Len(group) = 1
            THEN <<group[1].detection>> \o rest
            ELSE <<merge_group(group, group[1].index \in failing, geoms_order)>> \o rest

merge_overlapping_detections(detections, cfg, failing, geoms_order) ==
    IF ~cfg.enabled \/ Len(detections) = 0 THEN detections
    ELSE IF Len(detections) = 1 THEN detections
    ELSE LET pwd == polygons_with_data(detections, 1)
         IN IF Len(pwd) = 0 THEN detections
            ELSE merge_each_group(detections, pwd,
                                  group_overlapping_polygons(pwd, cfg),
                                  failing, geoms_order)

\* merged_det = detections[0].copy() with the merged values assigned to the
\* object the first member's name is bound to.
first_member_written_in_place(first, merged) == merged

\* merged_det = detections[0].copy(): the merged values are assigned to the
\* keys of a new dict, the first member's own dict is what it was.
first_member_after_merge(first, merged) == first

\* The caller's list after merge_overlapping_detections returned: what each of
\* its dicts holds then.
RECURSIVE inputs_after_each_group(_, _, _, _, _)
inputs_after_each_group(detections, pwd, groups, failing, geoms_order) ==
    IF groups = <<>> THEN detections
    ELSE LET group == [m \in DOMAIN Head(groups) |-> pwd[Head(groups)[m]]]
             rest == inputs_after_each_group(detections, pwd, Tail(groups), failing,
                                             geoms_order)
         IN IF Len(group) = 1 \/ group[1].index \in failing THEN rest
            ELSE [rest EXCEPT ![group[1].index] =
                    first_member_after_merge(group[1].detection,
                                             merge_group(group, FALSE, geoms_order))]

inputs_after_merge(detections, cfg, failing, geoms_order) ==
    IF ~cfg.enabled \/ Len(detections) <= 1 THEN detections
    ELSE LET pwd == polygons_with_data(detections, 1)
         IN IF Len(pwd) = 0 THEN detections
            ELSE inputs_after_each_group(detections, pwd,
                                         group_overlapping_polygons(pwd, cfg),
                                         failing, geoms_order)

-----------------------------------------------------------------------------
(* Tiles, pixel -> geo projection, capacity (pipeline.py, per detection)   *)

\* CONFIG["tile_size"]: width and height of a tile image in pixels.
TileSize == 256
\* Neighbouring tiles of the request overlap by this many pixels.
TileOverlap == 10
\* Largest number of tiles in a request.
MaxTiles == 2

\* The job_ids of the requests; "default" is the one of a request without.
JobIds == {"default", "job-1"}

\* The most analyze-tiles requests served.
MaxTasks == 3

\* The k-th tile of the request.  Geographic units are chosen so that one
\* pixel is one unit; tiles are laid out west to east.
Tile(k) ==
    [tile_index |-> 100 + k,
     width |-> TileSize, height |-> TileSize,
     bounds |-> [minLng |-> (k - 1) * (TileSize - TileOverlap),
                 maxLng |-> (k - 1) * (TileSize - TileOverlap) + TileSize,
                 minLat |-> 0, maxLat |-> TileSize]]

\* _pixel_to_geo: longitude linear in x; latitude falls as y grows (the
\* Mercator transform, linear at the model's resolution).  Returns (lat, lng).
pixel_to_geo(x, y, width, height, bounds) ==
    LET lng == bounds.minLng + (x * (bounds.maxLng - bounds.minLng)) \div width
        lat == bounds.maxLat - (y * (bounds.maxLat - bounds.minLat)) \div height
    IN <<lat, lng>>

\* max(0, min(img_w - 1, float(px)))
Clamp(v, size) == Max2(0, Min2(size - 1, v))

\* _bbox_to_obb
bbox_to_obb(bbox) ==
    <<bbox[1], bbox[2], bbox[3], bbox[2], bbox[3], bbox[4], bbox[1], bbox[4]>>

\* Lines 228-271 of run: the geoPolygon of a detection, as [lat, lng] pairs.
GeoPolygonOf(det, tile) ==
    LET togeo(pts) == [i \in DOMAIN pts |->
            pixel_to_geo(Clamp(pts[i][1], tile.width), Clamp(pts[i][2], tile.height),
                         tile.width, tile.height, tile.bounds)]
    IN IF det.polygon # <<>>
       THEN IF Len(det.polygon) >= 6
            THEN CloseRing(togeo(FlatToCoords(det.polygon)))
            ELSE <<>>
       ELSE CloseRing(togeo(FlatToCoords(bbox_to_obb(det.bbox))))

\* geo_bbox = [min(lats), min(lngs), max(lats), max(lngs)]
GeoBBoxOf(geo_polygon) == PolyBounds(geo_polygon)

\* STANDARD_PARKING_SPOT, COMPACT_PARKING_SPOT: the area of a spot in square
\* metres (12.5 and 10.35), as exact fractions.
STANDARD_PARKING_SPOT == [area |-> Rat(1250, 100)]
COMPACT_PARKING_SPOT == [area |-> Rat(1035, 100)]

\* METERS_PER_PIXEL = 0.05
METERS_PER_PIXEL == Rat(5, 100)

\* calculate_obb_area_pixels: shoelace over the flat list, closing the ring
\* with (i + 1) % n; abs(area) / 2.0, a whole or a half number of pixels.
calculate_obb_area_pixels(obb_coords) ==
    IF Len(obb_coords) < 6 THEN <<0, 1>>
    ELSE LET pts == FlatToCoords(obb_coords)
         IN Rat(Abs(Shoelace2(Append(pts, pts[1]), 1)), 2)

\* round(area_sq_meters, 2), kept as a number of hundredths; the half is
\* rounded up for the areas of the model.
RoundHundredths(a) == (a[1] * 200 + a[2]) \div (2 * a[2])

\* estimate_parking_capacity with the best estimate returned as computed,
\* without max(1, ...).
estimate_parking_capacity_unclamped(obb_coords, spot_type) ==
    LET spot == IF spot_type = "standard" THEN STANDARD_PARKING_SPOT
                ELSE COMPACT_PARKING_SPOT
        area_pixels == calculate_obb_area_pixels(obb_coords)
        area_sq_meters == RatMul(area_pixels, RatMul(METERS_PER_PIXEL, METERS_PER_PIXEL))
        capacity_low == RatInt(RatDiv(RatMul(area_sq_meters, Rat(65, 100)), spot.area))
        capacity_high == RatInt(RatDiv(RatMul(area_sq_meters, Rat(85, 100)), spot.area))
        estimated_capacity == RatInt(RatDiv(RatMul(area_sq_meters, Rat(75, 100)), spot.area))
    IN [area_sq_meters |-> RoundHundredths(area_sq_meters),
        estimated_capacity |-> estimated_capacity,
        capacity_range |-> <<Max2(0, capacity_low), Max2(1, capacity_high)>>,
        spot_type |-> spot_type,
        spot_size_sq_m |-> spot.area]

\* estimate_parking_capacity(obb_coords, meters_per_pixel=METERS_PER_PIXEL,
\* spot_type).  The floats of the code give the same integers as the exact
\* fractions for every whole or half pixel area up to 500000.
\* area_sq_meters is kept in hundredths of a square metre.
estimate_parking_capacity(obb_coords, spot_type) ==
    LET spot == IF spot_type = "standard" THEN STANDARD_PARKING_SPOT
                ELSE COMPACT_PARKING_SPOT
        area_pixels == calculate_obb_area_pixels(obb_coords)
        area_sq_meters == RatMul(area_pixels, RatMul(METERS_PER_PIXEL, METERS_PER_PIXEL))
        efficiency_low == Rat(65, 100)
        efficiency_high == Rat(85, 100)
        capacity_low == RatInt(RatDiv(RatMul(area_sq_meters, efficiency_low), spot.area))
        capacity_high == RatInt(RatDiv(RatMul(area_sq_meters, efficiency_high), spot.area))
        estimated_capacity == RatInt(RatDiv(RatMul(area_sq_meters, Rat(75, 100)), spot.area))
    IN [area_sq_meters |-> RoundHundredths(area_sq_meters),
        estimated_capacity |-> Max2(1, estimated_capacity),
        capacity_range |-> <<Max2(0, capacity_low), Max2(1, capacity_high)>>,
        spot_type |-> spot_type,
        spot_size_sq_m |-> spot.area]

\* The vehicles visible in a tile image, as pixel positions.
VehiclePoints == {<<5, 5>>, <<12, 5>>}

\* vehicle_counter.count_vehicles(self._crop_from_bbox(image, det["bbox"]))
\* ["count"]: the vehicles inside the crop.
count_vehicles(bbox) ==
    Cardinality({v \in VehiclePoints :
        bbox[1] <= v[1] /\ v[1] <= bbox[3] /\ bbox[2] <= v[2] /\ v[2] <= bbox[4]})

\* Lines 198-326 of run: the record built for one detection of a tile.
\* geoPolygon and geoBoundingBox hold [lat, lng] order.
build_detection(det, tile) ==
    LET geo_polygon == GeoPolygonOf(det, tile)
        obb_coords == IF det.polygon # <<>> THEN det.polygon ELSE bbox_to_obb(det.bbox)
        capacity == estimate_parking_capacity(obb_coords, "standard")
        vehicle_count == count_vehicles(det.bbox)
    IN [obb_coordinates |-> obb_coords,
        tile_index |-> tile.tile_index,
        confidence |-> <<det.confidence>>,
        vehicle_count |-> vehicle_count,
        is_occupied |-> vehicle_count > 0,
        geoBoundingBox |-> GeoBBoxOf(geo_polygon),
        geoPolygon |-> geo_polygon,
        area_sq_meters |-> capacity.area_sq_meters,
        estimated_capacity |-> capacity.estimated_capacity,
        merged_count |-> det.merged_count]

\* min(lats) of an empty geo_polygon raises ValueError.
BuildRaises(det) == det.polygon # <<>> /\ Len(det.polygon) < 6

-----------------------------------------------------------------------------
(* PipelineOrchestrator._merge_geo_polygons                                *)

\* Step 1, per detection: the polygon of its geoPolygon (x = lat, y = lng),
\* or NoPolygon when the detection is left out.
geo_usable_polygon(det) ==
    LET coords == det.geoPolygon
    IN IF coords # <<>> /\ Len(coords) >= 3
       THEN LET poly0 == MakePolygon(CloseRing(coords))
                poly == IF poly0 # NoPolygon /\ ~IsValid(poly0)
                        THEN Buffer0(poly0) ELSE poly0
            IN IF poly # NoPolygon /\ IsValid(poly) THEN poly ELSE NoPolygon
       ELSE NoPolygon

RECURSIVE geo_polygons_with_data(_, _)
geo_polygons_with_data(detections, idx) ==
    IF idx > Len(detections) THEN <<>>
    ELSE LET poly == geo_usable_polygon(detections[idx])
             rest == geo_polygons_with_data(detections, idx + 1)
         IN IF poly # NoPolygon
            THEN <<[polygon |-> poly, detection |-> detections[idx], index |-> idx]>> \o rest
            ELSE rest

\* Step 2 with the adjacency classifier of the per-tile merger instead.
geo_groups_classifier(pwd) ==
    group_by_adjacency(
        [i \in DOMAIN pwd |-> [j \in DOMAIN pwd |->
            polygons_overlap(pwd[i].polygon, pwd[j].polygon, obb_merger)]],
        Len(pwd))

\* Step 2: union-find over a plain intersection check.
geo_groups(pwd) ==
    group_by_adjacency(
        [i \in DOMAIN pwd |-> [j \in DOMAIN pwd |->
            Intersects(pwd[i].polygon, pwd[j].polygon)]],
        Len(pwd))

\* confidences = [c for d in original_dets for c in d.get('confidence', [])]
RECURSIVE FlattenConfidences(_)
FlattenConfidences(dets) ==
    IF dets = <<>> THEN <<>> ELSE Head(dets).confidence \o FlattenConfidences(Tail(dets))

\* The body of the try with the number of members as merged_count.
merge_geo_group_counting_members(group, geoms_order) ==
    LET polygons_in_group == [i \in DOMAIN group |-> group[i].polygon]
        merged_poly == RectRing(LargestPart(unary_union(polygons_in_group), geoms_order))
        original_dets == [i \in DOMAIN group |-> group[i].detection]
        b == PolyBounds(merged_poly)
        vehicle_count == SeqSum([i \in DOMAIN original_dets |-> original_dets[i].vehicle_count])
        confidences == FlattenConfidences(original_dets)
    IN [original_dets[1] EXCEPT
            !.geoPolygon = merged_poly,
            !.geoBoundingBox = <<b[2], b[1], b[4], b[3]>>,
            !.vehicle_count = vehicle_count,
            !.is_occupied = vehicle_count > 0,
            !.estimated_capacity =
                SeqSum([i \in DOMAIN original_dets |-> original_dets[i].estimated_capacity]),
            !.area_sq_meters =
                SeqSum([i \in DOMAIN original_dets |-> original_dets[i].area_sq_meters]),
            !.merged_count = <<Len(original_dets)>>,
            !.confidence =
                IF confidences # <<>> THEN <<RatMean(confidences)>> ELSE <<<<0, 1>>>>]

\* The body of the try with the vehicles and the capacity of the first
\* member kept instead of the sums.
merge_geo_group_first_member_counts(group, geoms_order) ==
    LET first == group[1].detection
    IN [merge_geo_group_counting_members(group, geoms_order) EXCEPT
            !.vehicle_count = first.vehicle_count,
            !.is_occupied = first.vehicle_count > 0,
            !.estimated_capacity = first.estimated_capacity,
            !.merged_count =
                <<SeqSum([i \in DOMAIN group |-> MergedCountOf(group[i].detection)])>>]

\* The body of the try with the area of the first member kept instead of the sum.
merge_geo_group_first_member_area(group, geoms_order) ==
    [merge_geo_group_counting_members(group, geoms_order) EXCEPT
        !.area_sq_meters = group[1].detection.area_sq_meters,
        !.merged_count =
            <<SeqSum([i \in DOMAIN group |-> MergedCountOf(group[i].detection)])>>]

\* The body of the try with the flattened confidences kept as they are.
merge_geo_group_flat_confidence(group, geoms_order) ==
    [merge_geo_group_counting_members(group, geoms_order) EXCEPT
        !.confidence = FlattenConfidences([i \in DOMAIN group |-> group[i].detection]),
        !.merged_count =
            <<SeqSum([i \in DOMAIN group |-> MergedCountOf(group[i].detection)])>>]

\* Step 4, the body of the try for a group of two or more.
merge_geo_group(group, geoms_order) ==
    LET polygons_in_group == [i \in DOMAIN group |-> group[i].polygon]
        merged_poly == RectRing(LargestPart(unary_union(polygons_in_group), geoms_order))
        original_dets == [i \in DOMAIN group |-> group[i].detection]
        b == PolyBounds(merged_poly)
        \* min_lng, min_lat, max_lng, max_lat = merged_poly.bounds
        min_lng == b[1]
        min_lat == b[2]
        max_lng == b[3]
        max_lat == b[4]
        vehicle_count == SeqSum([i \in DOMAIN original_dets |-> original_dets[i].vehicle_count])
        confidences == FlattenConfidences(original_dets)
    IN [original_dets[1] EXCEPT
            !.geoPolygon = merged_poly,
            !.geoBoundingBox = <<min_lat, min_lng, max_lat, max_lng>>,
            !.vehicle_count = vehicle_count,
            !.is_occupied = vehicle_count > 0,
            !.estimated_capacity =
                SeqSum([i \in DOMAIN original_dets |-> original_dets[i].estimated_capacity]),
            !.area_sq_meters =
                SeqSum([i \in DOMAIN original_dets |-> original_dets[i].area_sq_meters]),
            !.merged_count =
                <<SeqSum([i \in DOMAIN original_dets |-> MergedCountOf(original_dets[i])])>>,
            !.confidence =
                IF confidences # <<>> THEN <<RatMean(confidences)>> ELSE <<<<0, 1>>>>]

\* The loop over the groups with the per-tile merger's fallback: a failed
\* group gives its first member only.
RECURSIVE merge_each_geo_group_first_only(_, _, _, _)
merge_each_geo_group_first_only(pwd, groups, failing, geoms_order) ==
    IF groups = <<>> THEN <<>>
    ELSE LET group == [m \in DOMAIN Head(groups) |-> pwd[Head(groups)[m]]]
             rest == merge_each_geo_group_first_only(pwd, Tail(groups), failing, geoms_order)
         IN IF Len(group) = 1 \/ group[1].index \in failing
            THEN <<group[1].detection>> \o rest
            ELSE <<merge_geo_group(group, geoms_order)>> \o rest

RECURSIVE merge_each_geo_group(_, _, _, _)
merge_each_geo_group(pwd, groups, failing, geoms_order) ==
    IF groups = <<>> THEN <<>>
    ELSE LET group == [m \in DOMAIN Head(groups) |-> pwd[Head(groups)[m]]]
             rest == merge_each_geo_group(pwd, Tail(groups), failing, geoms_order)
         IN IF Len(group) = 1
            THEN <<group[1].detection>> \o rest
            ELSE IF group[1].index \in failing
                 \* except: merged_detections.extend(the group's detections)
                 THEN [i \in DOMAIN group |-> group[i].detection] \o rest
                 ELSE <<merge_geo_group(group, geoms_order)>> \o rest

GeoGroupsOfCall(detections) ==
    LET pwd == geo_polygons_with_data(detections, 1)
        groups == geo_groups(pwd)
    IN [g \in DOMAIN groups |-> [m \in DOMAIN groups[g] |-> pwd[groups[g][m]].index]]

merge_geo_polygons(detections, failing, geoms_order) ==
    IF Len(detections) <= 1 THEN detections
    ELSE LET pwd == geo_polygons_with_data(detections, 1)
         IN IF Len(pwd) = 0 THEN detections
            ELSE merge_each_geo_group(pwd, geo_groups(pwd), failing, geoms_order)

\* The caller's list after _merge_geo_polygons returned:
\* new_det = original_dets[0].copy()
RECURSIVE inputs_after_each_geo_group(_, _, _, _, _)
inputs_after_each_geo_group(detections, pwd, groups, failing, geoms_order) ==
    IF groups = <<>> THEN detections
    ELSE LET group == [m \in DOMAIN Head(groups) |-> pwd[Head(groups)[m]]]
             rest == inputs_after_each_geo_group(detections, pwd, Tail(groups), failing,
                                                 geoms_order)
         IN IF Len(group) = 1 \/ group[1].index \in failing THEN rest
            ELSE [rest EXCEPT ![group[1].index] =
                    first_member_after_merge(group[1].detection,
                                             merge_geo_group(group, geoms_order))]

inputs_after_geo_merge(detections, failing, geoms_order) ==
    IF Len(detections) <= 1 THEN detections
    ELSE LET pwd == geo_polygons_with_data(detections, 1)
         IN IF Len(pwd) = 0 THEN detections
            ELSE inputs_after_each_geo_group(detections, pwd, geo_groups(pwd),
                                             failing, geoms_order)

-----------------------------------------------------------------------------
(* Inputs of the merge calls                                               *)

\* Detections on three bands (y in 0..10, and 100..110).  BoxA, BoxB, BoxC
\* are the boxes of the specification's scenario.
BoxA == Det(<<0, 0, 10, 10>>, <<>>, <<1, 2>>)
BoxB == Det(<<9, 0, 19, 10>>, <<>>, <<9, 10>>)
BoxC == Det(<<100, 100, 110, 110>>, <<>>, <<7, 10>>)
\* An oriented box as the OBB head returns it: bbox and 8-number polygon.
ObbF == Det(<<5, 0, 15, 10>>, <<5, 0, 15, 0, 15, 10, 5, 10>>, <<9, 10>>)
BoxG == Det(<<6, 0, 16, 10>>, <<>>, <<1, 2>>)
BoxD == Det(<<69, 0, 79, 10>>, <<>>, <<1, 2>>)
BoxE == Det(<<70, 0, 80, 10>>, <<>>, <<7, 10>>)
\* A box without area, and a detection whose polygon is too short.
ZeroBox == Det(<<30, 0, 30, 10>>, <<>>, <<1, 2>>)
ShortPoly == Det(<<20, 0, 30, 10>>, <<1, 2>>, <<1, 2>>)

Catalogue == {BoxA, BoxB, BoxC, ObbF, BoxG, BoxD, BoxE, ZeroBox, ShortPoly}

\* A merger constructed with other arguments: IoU 1/3, overlap ratio 9/10,
\* and a negative distance, so that the distance rule never answers.
StrictMerger == MergerConfig(1, 3, 9, 10, -1, TRUE)

\* IoU 9/10, overlap ratio 2/5, no distance rule: the overlap ratio decides.
RatioMerger == MergerConfig(9, 10, 2, 5, -1, TRUE)

Configs == {obb_merger, StrictMerger, RatioMerger}

\* A box at the right edge of a tile, inside the strip the next tile covers too.
EdgeBox == Det(<<240, 0, 255, 10>>, <<>>, <<7, 10>>)

\* A box that in the second tile lies 21 pixels to the right of where EdgeBox
\* of the first tile ends: near it, not touching it.
NearBox == Det(<<30, 0, 40, 10>>, <<>>, <<7, 10>>)

\* A box that in the second tile touches EdgeBox of the first tile in one
\* corner only.
CornerBox == Det(<<9, 10, 19, 20>>, <<>>, <<1, 2>>)

\* What the detector may return for a tile: boxes only, or oriented boxes
\* only.  BoxB lies at the maximum distance from BoxD, which overlaps BoxE:
\* one group whose union has two parts.
Scenes == {<<>>, <<BoxA>>, <<BoxA, BoxB>>, <<EdgeBox>>, <<EdgeBox, BoxC>>,
           <<BoxG, ZeroBox>>, <<ObbF>>, <<NearBox>>, <<BoxB, BoxD, BoxE>>,
           <<CornerBox>>}

\* The records the tile loop builds from a list of detections of the first
\* tile, for those it can build.
RECURSIVE GeoInputOf(_)
GeoInputOf(dets) ==
    IF dets = <<>> THEN <<>>
    ELSE IF BuildRaises(Head(dets)) THEN GeoInputOf(Tail(dets))
         ELSE <<build_detection(Head(dets), Tile(1))>> \o GeoInputOf(Tail(dets))

\* The first members of the groups of two or more.
Leaders(groups) == {groups[g][1] : g \in {h \in DOMAIN groups : Len(groups[h]) >= 2}}

-----------------------------------------------------------------------------
(* State                                                                   *)

VARIABLES
    m_cfg,       \* the merger of the call
    m_src,       \* the detector output the call's input is made from
    m_phase,     \* "input", "local_done", "global_done"
    m_in,        \* the list passed to the call
    m_polys,     \* per input index: its polygon in the call, or NoPolygon
    m_groups,    \* the groups the call formed (input indices)
    m_failing,   \* first members of the groups whose union threw
    m_out,       \* the list the call returned
    m_in_after,  \* the list passed to the call, as it is after the call
    m_again,     \* <<>>, or <<the list a second call on the same list returned>>
    \* PipelineOrchestrator.run
    tiles,           \* the tiles of the request
    pc,              \* where run stands: "tile", "detected", "merged", "done", "raised"
    idx,             \* position of the current tile in tiles (from 1)
    tile_idx,        \* <<>> while the name is unbound, else <<tile index>>
    raw,             \* what the detector returned for the current tile
    detections,      \* the current tile's detections
    t_failing,       \* per-tile merge: first members of the groups whose union threw
    all_detections,  \* the records of all tiles, as handed to the global merge
    all_masks,
    failed_tiles,
    g_failing,       \* global merge: first members of the groups whose union threw
    result,          \* <<>> until run returns, then <<the returned dict>>
    g_groups,        \* global merge: the groups it formed (indices in all_detections)
    thrown,          \* what threw in the last step of run: "none", "decode",
                     \* "detect", "mask", "vehicles", "build"
    cancel_requested,\* <<>>, or <<k>>: cancel_analysis cancelled the task while
                     \* run was at the tile of position k
    \* estimate_parking_capacity
    c_obb,       \* the obb_coords of the call
    c_spot,      \* the spot_type of the call
    c_out,       \* <<>> until the call returns, then <<the returned dict>>
    \* main.py: the job registry
    active_tasks,    \* per job_id: the task registered under it, 0 for no key
    tasks,           \* the tasks created so far: job_id and state, "pending"
                     \* (created, not started), "cancelling" (cancel() called,
                     \* not yet delivered), "finished", "cancelled"
    cancel_reply     \* <<>>, or <<the dict the last cancel_analysis returned>>

mvars == <<m_cfg, m_src, m_phase, m_in, m_polys, m_groups, m_failing, m_out,
           m_in_after, m_again>>

pvars == <<tiles, pc, idx, tile_idx, raw, detections, t_failing, all_detections,
           all_masks, failed_tiles, g_failing, result, g_groups, thrown,
           cancel_requested>>

cvars == <<c_obb, c_spot, c_out>>

rvars == <<active_tasks, tasks, cancel_reply>>

vars == <<mvars, pvars, cvars, rvars>>

\* No call of estimate_parking_capacity on its own.
NoEstimate ==
    /\ c_obb = <<>>
    /\ c_spot = "standard"
    /\ c_out = <<>>

\* main.py line 65: active_tasks = {}, no request served yet.
NoRequests ==
    /\ active_tasks = [j \in JobIds |-> 0]
    /\ tasks = <<>>
    /\ cancel_reply = <<>>

\* The state of run's locals at its first line, for a request of n tiles.
RunStart(n) ==
    /\ tiles = [k \in 1..n |-> Tile(k)]
    /\ pc = "tile"
    /\ idx = 1
    /\ tile_idx = <<>>
    /\ raw = <<>>
    /\ detections = <<>>
    /\ t_failing = {}
    /\ all_detections = <<>>
    /\ all_masks = <<>>
    /\ failed_tiles = <<>>
    /\ g_failing = {}
    /\ result = <<>>
    /\ g_groups = <<>>
    /\ thrown = "none"
    /\ cancel_requested = <<>>

-----------------------------------------------------------------------------
(* A single merge call on every input of the catalogue                     *)

MergeInit ==
    /\ m_cfg \in Configs
    /\ m_src \in SeqsUpTo(Catalogue, MaxDets)
    /\ m_phase = "input"
    /\ m_in = <<>>
    /\ m_polys = <<>>
    /\ m_groups = <<>>
    /\ m_failing = {}
    /\ m_out = <<>>
    /\ m_in_after = <<>>
    /\ m_again = <<>>
    /\ RunStart(0)
    /\ NoEstimate
    /\ NoRequests

\* obb_merger.merge_overlapping_detections(detections)
LocalMergeCall ==
    /\ m_phase = "input"
    /\ m_in' = m_src
    /\ m_polys' = [i \in DOMAIN m_in' |-> usable_polygon(m_in'[i])]
    /\ m_groups' = GroupsOfCall(m_in', m_cfg)
    /\ \E failing \in SUBSET Leaders(m_groups'), order \in GeomsOrders :
          /\ m_out' = merge_overlapping_detections(m_in', m_cfg, failing, order)
          /\ m_failing' = failing
    /\ m_phase' = "local_done"
    /\ UNCHANGED <<m_cfg, m_src, m_in_after, m_again, pvars, cvars, rvars>>

\* self._merge_geo_polygons(all_detections) on the projected records
GlobalMergeCall ==
    /\ m_phase = "input"
    /\ m_in' = GeoInputOf(m_src)
    /\ m_polys' = [i \in DOMAIN m_in' |-> geo_usable_polygon(m_in'[i])]
    /\ m_groups' = GeoGroupsOfCall(m_in')
    /\ \E failing \in SUBSET Leaders(m_groups'), order \in GeomsOrders :
          /\ m_out' = merge_geo_polygons(m_in', failing, order)
          /\ m_failing' = failing
    /\ m_phase' = "global_done"
    /\ UNCHANGED <<m_cfg, m_src, m_in_after, m_again, pvars, cvars, rvars>>

MergeNext == LocalMergeCall \/ GlobalMergeCall

MergeSpec == MergeInit /\ [][MergeNext]_vars

-----------------------------------------------------------------------------
(* Two merge calls in a row on one list                                    *)

\* merged = obb_merger.merge_overlapping_detections(detections), and the same
\* call once more on the same list.  The union of the same polygons throws
\* or not, and orders its parts, as it did the first time.
LocalMergeTwice ==
    /\ m_phase = "input"
    /\ m_in' = m_src
    /\ m_polys' = [i \in DOMAIN m_in' |-> usable_polygon(m_in'[i])]
    /\ m_groups' = GroupsOfCall(m_in', m_cfg)
    /\ \E failing \in SUBSET Leaders(m_groups'), order \in GeomsOrders :
          /\ m_out' = merge_overlapping_detections(m_in', m_cfg, failing, order)
          /\ m_failing' = failing
          /\ m_in_after' = inputs_after_merge(m_in', m_cfg, failing, order)
          /\ m_again' = <<merge_overlapping_detections(m_in_after', m_cfg, failing, order)>>
    /\ m_phase' = "local_done"
    /\ UNCHANGED <<m_cfg, m_src, pvars, cvars, rvars>>

\* self._merge_geo_polygons(all_detections), twice on the same list.
GlobalMergeTwice ==
    /\ m_phase = "input"
    /\ m_in' = GeoInputOf(m_src)
    /\ m_polys' = [i \in DOMAIN m_in' |-> geo_usable_polygon(m_in'[i])]
    /\ m_groups' = GeoGroupsOfCall(m_in')
    /\ \E failing \in SUBSET Leaders(m_groups'), order \in GeomsOrders :
          /\ m_out' = merge_geo_polygons(m_in', failing, order)
          /\ m_failing' = failing
          /\ m_in_after' = inputs_after_geo_merge(m_in', failing, order)
          /\ m_again' = <<merge_geo_polygons(m_in_after', failing, order)>>
    /\ m_phase' = "global_done"
    /\ UNCHANGED <<m_cfg, m_src, pvars, cvars, rvars>>

TwiceNext == LocalMergeTwice \/ GlobalMergeTwice

TwiceSpec == MergeInit /\ [][TwiceNext]_vars

-----------------------------------------------------------------------------
(* PipelineOrchestrator.run                                                *)

Init ==
    /\ m_cfg = obb_merger
    /\ m_src = <<>>
    /\ m_phase = "input"
    /\ m_in = <<>>
    /\ m_polys = <<>>
    /\ m_groups = <<>>
    /\ m_failing = {}
    /\ m_out = <<>>
    /\ m_in_after = <<>>
    /\ m_again = <<>>
    /\ \E n \in 0..MaxTiles : RunStart(n)
    /\ NoEstimate
    /\ NoRequests

\* An except branch that lets the failure of a tile end run.
TileFailed_aborting(bound) ==
    /\ pc' = "raised"
    /\ UNCHANGED <<idx, tile_idx, failed_tiles>>

\* The except branch of the tile loop (lines 336-340) with tile_idx bound to
\* `bound`: the tile is recorded as failed and the loop goes on.  With the
\* name unbound the handler itself raises and run ends.
TileFailed(bound) ==
    IF bound = <<>>
    THEN /\ pc' = "raised"
         /\ UNCHANGED <<idx, tile_idx, failed_tiles>>
    ELSE /\ failed_tiles' = Append(failed_tiles, bound[1])
         /\ tile_idx' = bound
         /\ idx' = idx + 1
         /\ pc' = "tile"

\* Lines 150-162: the image is decoded, tile_idx is bound, the detector runs.
DetectTile ==
    /\ pc = "tile" /\ idx <= Len(tiles)
    /\ \E scene \in Scenes :
          /\ raw' = scene
          /\ detections' = scene
    /\ tile_idx' = <<tiles[idx].tile_index>>
    /\ pc' = "detected"
    /\ thrown' = "none"
    /\ UNCHANGED <<mvars, cvars, rvars, tiles, idx, t_failing, all_detections, all_masks,
                   failed_tiles, g_failing, result, g_groups, cancel_requested>>

\* Lines 152 and 162 raising: _decode_image before tile_idx is assigned, or
\* the detector after it.
DetectFails ==
    /\ pc = "tile" /\ idx <= Len(tiles)
    /\ \E stage \in {"decode", "detect"} :
          /\ TileFailed(IF stage = "decode" THEN tile_idx ELSE <<tiles[idx].tile_index>>)
          /\ thrown' = stage
    /\ UNCHANGED <<mvars, cvars, rvars, tiles, raw, detections, t_failing, all_detections,
                   all_masks, g_failing, result, g_groups, cancel_requested>>

\* Lines 168-171: the per-tile merge of a non-empty detector output.
MergeTile ==
    /\ pc = "detected"
    /\ IF Len(detections) > 0
       THEN \E failing \in SUBSET Leaders(GroupsOfCall(detections, obb_merger)),
               order \in GeomsOrders :
                /\ detections' = merge_overlapping_detections(detections, obb_merger,
                                                              failing, order)
                /\ t_failing' = failing
       ELSE /\ t_failing' = {}
            /\ UNCHANGED detections
    /\ pc' = "merged"
    /\ thrown' = "none"
    /\ UNCHANGED <<mvars, cvars, rvars, tiles, idx, tile_idx, raw, all_detections, all_masks,
                   failed_tiles, g_failing, result, g_groups, cancel_requested>>

\* Lines 184-340: the mask, then one record per detection, then
\* all_detections.extend.  raises: the collaborator that throws, if any; a
\* record that cannot be built throws too, and nothing of the tile is kept.
BuildTile ==
    /\ pc = "merged"
    /\ \E raises \in {"none", "mask", "vehicles"} :
          /\ raises = "vehicles" => detections # <<>>
          /\ all_masks' = IF raises = "mask" THEN all_masks
                          ELSE Append(all_masks, [tile_index |-> tile_idx[1],
                                                  mask |-> Len(detections)])
          /\ IF raises # "none" \/ \E i \in DOMAIN detections : BuildRaises(detections[i])
             THEN /\ TileFailed(tile_idx)
                  /\ thrown' = IF raises # "none" THEN raises ELSE "build"
                  /\ UNCHANGED all_detections
             ELSE /\ all_detections' = all_detections \o
                        [i \in DOMAIN detections |-> build_detection(detections[i], tiles[idx])]
                  /\ idx' = idx + 1
                  /\ pc' = "tile"
                  /\ thrown' = "none"
                  /\ UNCHANGED <<tile_idx, failed_tiles>>
    /\ UNCHANGED <<mvars, cvars, rvars, tiles, raw, detections, t_failing, g_failing, result,
                   g_groups, cancel_requested>>

\* Lines 342-370: the global merge and the returned dict.  per_tile_stats is
\* never written, so the totals are sums over nothing.  all_detections keeps
\* the list handed to the merge; the merged list is result's "detections".
GlobalMerge ==
    /\ pc = "tile" /\ idx > Len(tiles)
    /\ \E failing \in SUBSET Leaders(GeoGroupsOfCall(all_detections)),
          order \in GeomsOrders :
          /\ result' = <<[detections |-> merge_geo_polygons(all_detections, failing, order),
                          detection_masks |-> all_masks,
                          total_spaces |-> 0,
                          total_vehicles_detected |-> 0,
                          total_estimated_capacity |-> 0,
                          per_tile_stats |-> <<>>,
                          failed_tiles |-> failed_tiles]>>
          /\ g_failing' = failing
    /\ g_groups' = GeoGroupsOfCall(all_detections)
    /\ pc' = "done"
    /\ thrown' = "none"
    /\ UNCHANGED <<mvars, cvars, rvars, tiles, idx, tile_idx, raw, detections, t_failing,
                   all_detections, all_masks, failed_tiles, cancel_requested>>

\* main.py, cancel_analysis: task.cancel() on the task that runs the job.  The
\* cancellation is delivered at an await of the task; run has none and reads
\* no flag, so nothing of run's state changes.  The request is taken here as
\* served while a tile is in work, the case most in favour of a check
\* between the tiles.
cancel_analysis ==
    /\ pc \in {"detected", "merged"}
    /\ cancel_requested = <<>>
    /\ cancel_requested' = <<idx>>
    /\ UNCHANGED <<mvars, cvars, rvars, tiles, pc, idx, tile_idx, raw, detections, t_failing,
                   all_detections, all_masks, failed_tiles, g_failing, result,
                   g_groups, thrown>>

Next ==
    DetectTile \/ DetectFails \/ MergeTile \/ BuildTile \/ GlobalMerge \/ cancel_analysis

Spec == Init /\ [][Next]_vars

\* A step of run: every statement block of run moves its position (pc) or its
\* place in the tile list (idx); a cancel request moves neither.
RunStep ==
    /\ pc \in {"tile", "detected", "merged"}
    /\ pc' \in {"tile", "detected", "merged", "done", "raised"}
    /\ idx' \in {idx, idx + 1}

\* run is one coroutine without an await: once started it is never suspended,
\* so while it has not ended its next step is taken.
FairSpec == Spec /\ WF_<<pc, idx>>(RunStep)

-----------------------------------------------------------------------------------------------------------------------------------------------------
(* A single call of estimate_parking_capacity                              *)

\* Side lengths in pixels; the largest shape has 500000 square pixels.
Widths == {0, 1, 3, 13, 129, 400, 1000}
Heights == {0, 1, 3, 13, 129, 400, 500}

\* The obb_coords of the calls: the four corners of an axis-aligned box, the
\* three corners of a right triangle (half a box), and a list too short to
\* be a polygon.
Shapes ==
    {<<0, 0, w, 0, w, h, 0, h>> : w \in Widths, h \in Heights}
    \cup {<<0, 0, w, 0, 0, h>> : w \in Widths, h \in Heights}
    \cup {<<0, 0, 400, 400>>}

SpotTypes == {"standard", "compact"}

CapacityInit ==
    /\ m_cfg = obb_merger
    /\ m_src = <<>>
    /\ m_phase = "input"
    /\ m_in = <<>>
    /\ m_polys = <<>>
    /\ m_groups = <<>>
    /\ m_failing = {}
    /\ m_out = <<>>
    /\ m_in_after = <<>>
    /\ m_again = <<>>
    /\ RunStart(0)
    /\ c_obb \in Shapes
    /\ c_spot \in SpotTypes
    /\ c_out = <<>>
    /\ NoRequests

\* estimate_parking_capacity(obb_coords, spot_type=spot_type)
EstimateCall ==
    /\ c_out = <<>>
    /\ c_out' = <<estimate_parking_capacity(c_obb, c_spot)>>
    /\ UNCHANGED <<mvars, pvars, rvars, c_obb, c_spot>>

CapacityNext == EstimateCall

CapacitySpec == CapacityInit /\ [][CapacityNext]_vars

-----------------------------------------------------------------------------
(* main.py: analyze_tiles, run_pipeline, cancel_analysis and active_tasks  *)

\* A job_id is in active_tasks.
Registered(job_id) == active_tasks[job_id] # 0

\* The task has been created and has not ended.
Running(t) == tasks[t].state \in {"pending", "cancelling"}

\* Lines 108-147: the handler up to its await: the task is created, not yet
\* started, and stored under job_id, over whatever was stored there.
analyze_tiles(job_id) ==
    /\ Len(tasks) < MaxTasks
    /\ tasks' = Append(tasks, [job_id |-> job_id, state |-> "pending"])
    /\ active_tasks' = [active_tasks EXCEPT ![job_id] = Len(tasks) + 1]
    /\ UNCHANGED <<mvars, pvars, cvars, cancel_reply>>

\* Lines 141-143: if job_id in active_tasks: del active_tasks[job_id].
finally_del(job_id, t) ==
    IF Registered(job_id) THEN [active_tasks EXCEPT ![job_id] = 0] ELSE active_tasks

\* Lines 122-143: the first step of the task.  `async for` over the coroutine
\* that pipeline.run(...) returns raises TypeError before any await, the
\* finally block runs and the task ends: the body is one step.
run_pipeline(t) ==
    /\ tasks[t].state = "pending"
    /\ active_tasks' = finally_del(tasks[t].job_id, t)
    /\ tasks' = [tasks EXCEPT ![t].state = "finished"]
    /\ UNCHANGED <<mvars, pvars, cvars, cancel_reply>>

\* The first step of a task that was cancelled before it started:
\* CancelledError is thrown into a coroutine that has not begun, so neither
\* the try block nor its finally block is entered.
run_pipeline_cancelled(t) ==
    /\ tasks[t].state = "cancelling"
    /\ tasks' = [tasks EXCEPT ![t].state = "cancelled"]
    /\ UNCHANGED <<mvars, pvars, cvars, active_tasks, cancel_reply>>

\* Lines 81-91, cancel_analysis(job_id): task.cancel() on the task stored
\* under job_id; cancel() does nothing to a task that has ended.
cancel_analysis_of(job_id) ==
    /\ IF Registered(job_id)
       THEN LET t == active_tasks[job_id]
            IN /\ tasks' = IF tasks[t].state = "pending"
                           THEN [tasks EXCEPT ![t].state = "cancelling"]
                           ELSE tasks
               /\ cancel_reply' = <<[status |-> "cancelled", job_id |-> job_id]>>
       ELSE /\ cancel_reply' = <<[status |-> "not_found", job_id |-> job_id]>>
            /\ UNCHANGED tasks
    /\ UNCHANGED <<mvars, pvars, cvars, active_tasks>>

RegistryInit ==
    /\ m_cfg = obb_merger
    /\ m_src = <<>>
    /\ m_phase = "input"
    /\ m_in = <<>>
    /\ m_polys = <<>>
    /\ m_groups = <<>>
    /\ m_failing = {}
    /\ m_out = <<>>
    /\ m_in_after = <<>>
    /\ m_again = <<>>
    /\ RunStart(0)
    /\ NoEstimate
    /\ NoRequests

RegistryNext ==
    \/ \E job_id \in JobIds : analyze_tiles(job_id)
    \/ \E t \in DOMAIN tasks : run_pipeline(t)
    \/ \E t \in DOMAIN tasks : run_pipeline_cancelled(t)
    \/ \E job_id \in JobIds : cancel_analysis_of(job_id)

RegistrySpec == RegistryInit /\ [][RegistryNext]_vars

-----
(* Vocabulary of the properties                                            *)

Geometrizable == {i \in DOMAIN m_in : m_polys[i] # NoPolygon}

\* The adjacency test of the call on two geometrizable detections.
Adjacent(i, j) ==
    IF m_phase = "global_done"
    THEN Intersects(m_polys[i], m_polys[j])
    ELSE polygons_overlap(m_polys[i], m_polys[j], m_cfg)

\* Per geometrizable detection, the detections adjacent to it.
Neighbours ==
    [i \in Geometrizable |->
        {j \in Geometrizable \ {i} : Adjacent(i, j) \/ Adjacent(j, i)}]

\* The detections a chain of adjacent pairs (nb) links to those of S.
RECURSIVE Linked(_, _)
Linked(S, nb) ==
    LET more == UNION {nb[i] : i \in S} \ S
    IN IF more = {} THEN S ELSE Linked(S \cup more, nb)

GroupsWith(i) == {g \in DOMAIN m_groups : i \in Range(m_groups[g])}

\* Where the records of group g start in a returned list: a group gives one
\* record, except the groups whose first member is in `expanded`, which give
\* all their members.
RECURSIVE GroupStart(_, _, _)
GroupStart(groups, expanded, g) ==
    IF g = 1 THEN 1
    ELSE GroupStart(groups, expanded, g - 1)
         + (IF groups[g - 1][1] \in expanded THEN Len(groups[g - 1]) ELSE 1)

\* For the single merge call: only a failed group of the global merge gives
\* all its members.
OutStart(g) ==
    GroupStart(m_groups, IF m_phase = "global_done" THEN m_failing ELSE {}, g)

-----------------------------------------------------------------------------
(* C1 *)

\* C1: every detection of a merge call that cannot be turned into a valid
\* polygon still appears, unchanged, in the returned list.
C1_UngeometrizableKept ==
    m_phase # "input" =>
        \A i \in DOMAIN m_in :
            i \notin Geometrizable => \E j \in DOMAIN m_out : m_out[j] = m_in[i]

-----------------------------------------------------------------------------
(* C2 *)

\* C2: the groups are a partition of the geometrizable detections, and two
\* detections share a group exactly when a chain of adjacent pairs links them.
C2_GroupsAreComponents ==
    m_phase # "input" =>
        /\ \A i \in DOMAIN m_in :
              Cardinality(GroupsWith(i)) = (IF i \in Geometrizable THEN 1 ELSE 0)
        /\ \A g \in DOMAIN m_groups :
              /\ m_groups[g] # <<>>
              /\ Cardinality(Range(m_groups[g])) = Len(m_groups[g])
        /\ LET nb == Neighbours
           IN \A i \in Geometrizable :
                 LET linked == Linked({i}, nb)
                 IN \A j \in Geometrizable :
                       (GroupsWith(i) = GroupsWith(j)) <=> (j \in linked)

\* A group of three that only a chain holds together: the first and the last
\* member are not adjacent.
C2_Witness ==
    /\ m_phase = "local_done"
    /\ \E g \in DOMAIN m_groups :
          /\ Len(m_groups[g]) = 3
          /\ Adjacent(m_groups[g][1], m_groups[g][2])
          /\ Adjacent(m_groups[g][2], m_groups[g][3])
          /\ ~Adjacent(m_groups[g][1], m_groups[g][3])

-----------------------------------------------------------------------------
(* C3 *)

\* should_merge as the specification states it.
ShouldMerge(a, b, cfg) ==
    \/ /\ Intersects(a, b)
       /\ UnionArea(a, b) > 0
       /\ \/ IntersectionArea(a, b) * cfg.iou_den >= cfg.iou_num * UnionArea(a, b)
          \/ IntersectionArea(a, b) * cfg.ov_den
                >= cfg.ov_num * Min2(PolyArea(a), PolyArea(b))
    \/ (cfg.max_distance >= 0
        /\ Distance2(a, b) <= cfg.max_distance * cfg.max_distance)

\* C3: the classifier answers true exactly when the polygons overlap enough
\* (IoU or overlap ratio) or lie within the maximum distance; on a call with
\* two detections that answer decides whether they form one group.
C3_ShouldMergeIff ==
    m_phase = "local_done" =>
        /\ \A i, j \in Geometrizable :
              i # j => (polygons_overlap(m_polys[i], m_polys[j], m_cfg)
                        <=> ShouldMerge(m_polys[i], m_polys[j], m_cfg))
        /\ (Len(m_in) = 2 /\ Geometrizable = {1, 2}) =>
              ((Len(m_groups) = 1) <=> ShouldMerge(m_polys[1], m_polys[2], m_cfg))

\* Two detections grouped by the overlap-ratio rule alone: the IoU is below
\* its threshold and the distance rule does not answer.
C3_Witness ==
    /\ m_phase = "local_done"
    /\ Len(m_in) = 2 /\ Geometrizable = {1, 2}
    /\ Len(m_groups) = 1
    /\ IntersectionArea(m_polys[1], m_polys[2]) * m_cfg.iou_den
          < m_cfg.iou_num * UnionArea(m_polys[1], m_polys[2])
    /\ ~DistanceLeq(m_polys[1], m_polys[2], m_cfg.max_distance)

-----------------------------------------------------------------------------
(* C4 *)

\* Two polygons of the call that are squares of the same side.
EqualSquares(a, b) ==
    LET p == PolyBounds(a)
        q == PolyBounds(b)
    IN /\ p[3] - p[1] = p[4] - p[2]
       /\ q[3] - q[1] = q[4] - q[2]
       /\ p[3] - p[1] = q[3] - q[1]

IouEquals(a, b, cfg) == IntersectionArea(a, b) * cfg.iou_den = cfg.iou_num * UnionArea(a, b)
IouBelow(a, b, cfg) == IntersectionArea(a, b) * cfg.iou_den < cfg.iou_num * UnionArea(a, b)
RatioBelow(a, b, cfg) ==
    IntersectionArea(a, b) * cfg.ov_den < cfg.ov_num * Min2(PolyArea(a), PolyArea(b))
DistanceAbove(a, b, cfg) ==
    cfg.max_distance < 0 \/ Distance2(a, b) > cfg.max_distance * cfg.max_distance

\* C4: two equal squares whose IoU is exactly the threshold are merged into
\* one record; with an IoU below the threshold and no other rule answering
\* they are returned as they came.
C4_IouBoundary ==
    (m_phase = "local_done" /\ Len(m_in) = 2 /\ Geometrizable = {1, 2}
        /\ EqualSquares(m_polys[1], m_polys[2]) /\ m_failing = {}) =>
        /\ IouEquals(m_polys[1], m_polys[2], m_cfg) =>
              /\ m_groups = <<<<1, 2>>>>
              /\ Len(m_out) = 1
              /\ m_out[1].merged_count = <<2>>
        /\ (/\ IouBelow(m_polys[1], m_polys[2], m_cfg)
            /\ RatioBelow(m_polys[1], m_polys[2], m_cfg)
            /\ DistanceAbove(m_polys[1], m_polys[2], m_cfg)) =>
              /\ m_groups = <<<<1>>, <<2>>>>
              /\ m_out = m_in

\* Squares merged at an IoU of exactly the threshold, which alone decides.
C4_Witness ==
    /\ m_phase = "local_done" /\ Len(m_in) = 2 /\ Geometrizable = {1, 2}
    /\ EqualSquares(m_polys[1], m_polys[2]) /\ m_failing = {}
    /\ IouEquals(m_polys[1], m_polys[2], m_cfg)
    /\ RatioBelow(m_polys[1], m_polys[2], m_cfg)
    /\ DistanceAbove(m_polys[1], m_polys[2], m_cfg)
    /\ Len(m_out) = 1

\* Squares just below the IoU threshold, with no other rule answering, that
\* stay apart.
C4_WitnessBelow ==
    /\ m_phase = "local_done" /\ Len(m_in) = 2 /\ Geometrizable = {1, 2}
    /\ EqualSquares(m_polys[1], m_polys[2])
    /\ Intersects(m_polys[1], m_polys[2])
    /\ IouBelow(m_polys[1], m_polys[2], m_cfg)
    /\ RatioBelow(m_polys[1], m_polys[2], m_cfg)
    /\ DistanceAbove(m_polys[1], m_polys[2], m_cfg)
    /\ m_out = m_in

-----------------------------------------------------------------------------
(* C5 *)

\* C5: two polygons that do not intersect are merged when their distance is
\* exactly the maximum distance and are not merged when it is larger.
C5_DistanceBoundary ==
    (m_phase = "local_done" /\ Len(m_in) = 2 /\ Geometrizable = {1, 2}
        /\ ~Intersects(m_polys[1], m_polys[2]) /\ m_failing = {}) =>
        /\ (m_cfg.max_distance >= 0
            /\ Distance2(m_polys[1], m_polys[2]) = m_cfg.max_distance * m_cfg.max_distance) =>
              /\ m_groups = <<<<1, 2>>>>
              /\ Len(m_out) = 1
              /\ m_out[1].merged_count = <<2>>
        /\ DistanceAbove(m_polys[1], m_polys[2], m_cfg) =>
              /\ m_groups = <<<<1>>, <<2>>>>
              /\ m_out = m_in

\* Two boxes exactly the maximum distance apart, merged.
C5_Witness ==
    /\ m_phase = "local_done" /\ Len(m_in) = 2 /\ Geometrizable = {1, 2}
    /\ ~Intersects(m_polys[1], m_polys[2]) /\ m_failing = {}
    /\ m_cfg.max_distance > 0
    /\ Distance2(m_polys[1], m_polys[2]) = m_cfg.max_distance * m_cfg.max_distance
    /\ Len(m_out) = 1

\* Two boxes one pixel further apart than the maximum distance, kept apart.
C5_WitnessAbove ==
    /\ m_phase = "local_done" /\ Len(m_in) = 2 /\ Geometrizable = {1, 2}
    /\ m_cfg.max_distance > 0
    /\ Distance2(m_polys[1], m_polys[2]) = (m_cfg.max_distance + 1) * (m_cfg.max_distance + 1)
    /\ m_out = m_in

-----------------------------------------------------------------------------
(* C6 *)

\* C6: with the singleton's thresholds, A, B and C come back as two records:
\* A and B merged (their IoU is below 0.1, their overlap ratio is not below
\* 0.05), and C as it came.
C6_Scenario ==
    (m_phase = "local_done" /\ m_cfg = obb_merger /\ m_failing = {}
        /\ m_in = <<BoxA, BoxB, BoxC>>) =>
        /\ IouBelow(m_polys[1], m_polys[2], m_cfg)
        /\ ~RatioBelow(m_polys[1], m_polys[2], m_cfg)
        /\ m_groups = <<<<1, 2>>, <<3>>>>
        /\ Len(m_out) = 2
        /\ m_out[1].merged_count = <<2>>
        /\ m_out[1].bbox = <<0, 0, 19, 10>>
        /\ calculate_obb_area_pixels(m_out[1].polygon) = <<190, 1>>
        /\ m_out[2] = BoxC

C6_Witness ==
    /\ m_phase = "local_done" /\ m_cfg = obb_merger /\ m_failing = {}
    /\ m_in = <<BoxA, BoxB, BoxC>>
    /\ Len(m_out) = 2

-----------------------------------------------------------------------------
(* C7 *)

\* C7: a merge call on detections of which no pair is adjacent returns the
\* same detections in the same order, each with a merged_count of 1.
C7_DisjointIdentity ==
    (m_phase # "input" /\ \A i, j \in Geometrizable : i # j => ~Adjacent(i, j)) =>
        /\ m_out = m_in
        /\ \A k \in DOMAIN m_out : MergedCountOf(m_out[k]) = 1

-----------------------------------------------------------------------------
(* C8 *)

\* C8: a detection alone in its group is returned as the identical record,
\* at the place of its group, whatever happens to the other groups.
C8_SingletonUntouched ==
    m_phase # "input" =>
        \A g \in DOMAIN m_groups :
            Len(m_groups[g]) = 1 =>
                /\ OutStart(g) \in DOMAIN m_out
                /\ m_out[OutStart(g)] = m_in[m_groups[g][1]]

\* A call that merges one group and passes another detection through.
C8_Witness ==
    /\ m_phase \in {"local_done", "global_done"}
    /\ m_failing = {}
    /\ \E g, h \in DOMAIN m_groups :
          /\ Len(m_groups[g]) = 1
          /\ Len(m_groups[h]) >= 2
          /\ m_out[OutStart(h)].merged_count = <<Len(m_groups[h])>>
          /\ m_out[OutStart(g)] = m_in[m_groups[g][1]]

-----------------------------------------------------------------------------
(* C9 *)

\* C9 as stated: in both mergers a group whose union fails gives exactly one
\* record, its first member unchanged.
C9_FirstMemberOnly ==
    (m_phase # "input" /\ m_failing # {}) =>
        /\ Len(m_out) = Len(m_groups)
        /\ \A g \in DOMAIN m_groups :
              m_groups[g][1] \in m_failing => m_out[g] = m_in[m_groups[g][1]]

\* C9, amended: a group whose union fails gives, in the per-tile merge, its
\* first member unchanged and nothing else; in the global merge, all of its
\* members unchanged and in order.  Every other group gives one record.
C9_FallbackPerMerger ==
    (m_phase # "input" /\ m_failing # {}) =>
        /\ m_phase = "local_done" =>
              /\ Len(m_out) = Len(m_groups)
              /\ \A g \in DOMAIN m_groups :
                    m_groups[g][1] \in m_failing => m_out[g] = m_in[m_groups[g][1]]
        /\ m_phase = "global_done" =>
              /\ Len(m_out) = OutStart(Len(m_groups) + 1) - 1
              /\ \A g \in DOMAIN m_groups :
                    m_groups[g][1] \in m_failing =>
                        \A m \in DOMAIN m_groups[g] :
                            m_out[OutStart(g) + m - 1] = m_in[m_groups[g][m]]

\* A global merge in which the union of a group has failed.
C9_Witness ==
    /\ m_phase = "global_done"
    /\ m_failing # {}
    /\ Len(m_out) > Len(m_groups)

\* A per-tile merge in which the union of a group has failed.
C9_WitnessLocal ==
    /\ m_phase = "local_done"
    /\ m_failing # {}
    /\ \E g \in DOMAIN m_groups :
          /\ m_groups[g][1] \in m_failing
          /\ Len(m_groups[g]) >= 2
          /\ m_out[g] = m_in[m_groups[g][1]]
          /\ \A m \in 2..Len(m_groups[g]) :
                \A k \in DOMAIN m_out : m_out[k] # m_in[m_groups[g][m]]

-----------------------------------------------------------------------------
(* C10 *)

\* The merged_count values of the members (input indices) of a group, summed,
\* a member without the field counting 1.
MemberCountSum(dets, members) ==
    SeqSum([m \in DOMAIN members |-> MergedCountOf(dets[members[m]])])

\* C10: at both merge stages a successfully merged record carries the sum of
\* its members' merged_count values (1 for a member without the field), and
\* no record carries a merged_count below 1.
C10_MergedCountIsSum ==
    /\ pc = "merged" =>
          LET groups == GroupsOfCall(raw, obb_merger)
          IN \A g \in DOMAIN groups :
                (Len(groups[g]) >= 2 /\ groups[g][1] \notin t_failing) =>
                    detections[g].merged_count = <<MemberCountSum(raw, groups[g])>>
    /\ pc = "done" =>
          LET groups == GeoGroupsOfCall(all_detections)
          IN \A g \in DOMAIN groups :
                (Len(groups[g]) >= 2 /\ groups[g][1] \notin g_failing) =>
                    result[1].detections[GroupStart(groups, g_failing, g)].merged_count
                        = <<MemberCountSum(all_detections, groups[g])>>
    /\ \A i \in DOMAIN detections : MergedCountOf(detections[i]) >= 1
    /\ \A i \in DOMAIN all_detections : MergedCountOf(all_detections[i]) >= 1
    /\ pc = "done" =>
          \A i \in DOMAIN result[1].detections : MergedCountOf(result[1].detections[i]) >= 1

\* A record merged from two detections in its tile is merged again, across
\* the tiles, with a record of the neighbouring tile.
C10_Witness ==
    /\ pc = "done"
    /\ \E i \in DOMAIN all_detections : all_detections[i].merged_count = <<2>>
    /\ \E k \in DOMAIN result[1].detections : result[1].detections[k].merged_count = <<3>>

-----------------------------------------------------------------------------
(* C11 *)

\* The values of one field of the members (input indices) of a group, summed.
MemberFieldSum(dets, members, field) ==
    SeqSum([m \in DOMAIN members |-> dets[members[m]][field]])

\* C11: a record the global merge makes of a group of two or more carries
\* the sum of the members' vehicle_count, the sum of their
\* estimated_capacity, and is_occupied exactly when the summed vehicle_count
\* is above 0.
C11_GlobalSums ==
    pc = "done" =>
        LET groups == GeoGroupsOfCall(all_detections)
        IN \A g \in DOMAIN groups :
              (Len(groups[g]) >= 2 /\ groups[g][1] \notin g_failing) =>
                  LET merged == result[1].detections[GroupStart(groups, g_failing, g)]
                      vehicles == MemberFieldSum(all_detections, groups[g], "vehicle_count")
                  IN /\ merged.vehicle_count = vehicles
                     /\ merged.estimated_capacity
                           = MemberFieldSum(all_detections, groups[g], "estimated_capacity")
                     /\ merged.is_occupied = (vehicles > 0)

\* A group merged across two tiles whose first member saw no vehicle and
\* whose other member saw two.
C11_Witness ==
    /\ pc = "done"
    /\ g_failing = {}
    /\ \E i, j \in DOMAIN all_detections :
          /\ all_detections[i].tile_index # all_detections[j].tile_index
          /\ all_detections[i].vehicle_count = 0
          /\ all_detections[j].vehicle_count = 2
          /\ Len(result[1].detections) = 1
          /\ Len(all_detections) = 2
          /\ result[1].detections[1].vehicle_count = 2
          /\ result[1].detections[1].is_occupied
          /\ result[1].detections[1].estimated_capacity = 2

-----------------------------------------------------------------------------
(* C12 *)

\* The step of run that builds the records of the current tile and appends
\* them to all_detections, and the records it appends.
BuildStep ==
    /\ pc = "merged" /\ pc' = "tile"
    /\ failed_tiles' = failed_tiles
    /\ Len(all_detections') = Len(all_detections) + Len(detections)

BuiltNow == SubSeq(all_detections', Len(all_detections) + 1, Len(all_detections'))

\* The area run gives a detection that is built on its own.
MemberArea(det) ==
    estimate_parking_capacity(
        IF det.polygon # <<>> THEN det.polygon ELSE bbox_to_obb(det.bbox),
        "standard").area_sq_meters

\* C12 as stated: the record of a group merged in pixel space carries the sum
\* of the areas of its members.
C12_PixelAreaIsSum ==
    [][BuildStep =>
          LET groups == GroupsOfCall(raw, obb_merger)
          IN \A g \in DOMAIN groups :
                (Len(groups[g]) >= 2 /\ groups[g][1] \notin t_failing) =>
                    BuiltNow[g].area_sq_meters
                        = SeqSum([m \in DOMAIN groups[g] |-> MemberArea(raw[groups[g][m]])])
      ]_vars

\* C12, amended: the sum rule is the global merge's.  The record of a group
\* merged in pixel space carries the area of its merged polygon; the record
\* the global merge makes of a group carries the sum of the members' areas.
C12_AreaPerStage ==
    [][/\ BuildStep =>
             LET groups == GroupsOfCall(raw, obb_merger)
             IN \A g \in DOMAIN groups :
                   (Len(groups[g]) >= 2 /\ groups[g][1] \notin t_failing) =>
                       BuiltNow[g].area_sq_meters
                           = RoundArea(PolyArea(CloseRing(FlatToCoords(
                                 BuiltNow[g].obb_coordinates))))
       /\ (pc = "tile" /\ pc' = "done") =>
             LET groups == GeoGroupsOfCall(all_detections)
             IN \A g \in DOMAIN groups :
                   (Len(groups[g]) >= 2 /\ groups[g][1] \notin g_failing') =>
                       result'[1].detections[GroupStart(groups, g_failing', g)].area_sq_meters
                           = MemberFieldSum(all_detections, groups[g], "area_sq_meters")
      ]_vars

\* A record merged of two boxes in its tile, whose area is below the sum of
\* the two, is merged across the tiles with a third, and the areas are added.
C12_Witness ==
    /\ pc = "done"
    /\ g_failing = {}
    /\ \E i, j \in DOMAIN all_detections :
          /\ i # j
          /\ all_detections[i].merged_count = <<2>>
          /\ all_detections[i].area_sq_meters < 2 * MemberArea(BoxA)
          /\ \E k \in DOMAIN result[1].detections :
                /\ result[1].detections[k].merged_count = <<3>>
                /\ result[1].detections[k].area_sq_meters
                      = all_detections[i].area_sq_meters + all_detections[j].area_sq_meters

-----------------------------------------------------------------------------
(* C13 *)

\* The flattened confidence lists of the members (input indices) of a group
\* of the merge call.
MemberConfidences(members) ==
    FlattenConfidences([m \in DOMAIN members |-> m_in[members[m]]])

\* a <= b for rationals <<numerator, denominator>>.
RatLeq(a, b) == a[1] * b[2] <= b[1] * a[2]

RECURSIVE DenProduct(_)
DenProduct(confs) ==
    IF confs = <<>> THEN 1 ELSE Head(confs)[2] * DenProduct(Tail(confs))

\* The sum of the differences c - mean over confs, times the product of all
\* denominators: 0 exactly when mean is the arithmetic mean.
DeviationSum(confs, mean) ==
    LET dens == DenProduct(confs) * mean[2]
    IN SeqSum([i \in DOMAIN confs |->
           (confs[i][1] * mean[2] - mean[1] * confs[i][2])
               * (dens \div (confs[i][2] * mean[2]))])

\* The successfully merged groups of a global merge call.
GlobalMergedGroups ==
    {g \in DOMAIN m_groups : Len(m_groups[g]) >= 2 /\ m_groups[g][1] \notin m_failing}

\* C13 as stated: the confidences of a record of the global merge all lie in
\* the band [0.8, 0.9], and are exactly [0.85] when the members' values are
\* all equal.
C13_RescaledToBand ==
    m_phase = "global_done" =>
        \A g \in GlobalMergedGroups :
            LET merged == m_out[OutStart(g)].confidence
                confs == MemberConfidences(m_groups[g])
            IN /\ \A k \in DOMAIN merged :
                     RatLeq(<<4, 5>>, merged[k]) /\ RatLeq(merged[k], <<9, 10>>)
               /\ (\A k \in DOMAIN confs : confs[k] = confs[1]) => merged = <<<<17, 20>>>>

\* C13, amended: the confidence of a record of the global merge is the list
\* of one value, the arithmetic mean of the members' flattened confidences;
\* nothing is rescaled.  [0.5] and [0.9] give [0.7]; equal values give that
\* value.
C13_MeanOfFlattened ==
    m_phase = "global_done" =>
        \A g \in GlobalMergedGroups :
            LET merged == m_out[OutStart(g)].confidence
                confs == MemberConfidences(m_groups[g])
            IN /\ Len(merged) = 1
               /\ DeviationSum(confs, merged[1]) = 0
               /\ confs = <<<<1, 2>>, <<9, 10>>>> => merged = <<<<7, 10>>>>
               /\ (\A k \in DOMAIN confs : confs[k] = confs[1]) => merged = <<confs[1]>>

\* Two records with the confidences [0.5] and [0.9] merged into one record
\* with the confidence [0.7].
C13_Witness ==
    /\ m_phase = "global_done"
    /\ Len(m_in) = 2
    /\ m_in[1].confidence = <<<<1, 2>>>>
    /\ m_in[2].confidence = <<<<9, 10>>>>
    /\ m_out = <<m_out[1]>>
    /\ m_out[1].confidence = <<<<7, 10>>>>

\* Two records with the confidence [0.7] merged into one record with [0.7].
C13_WitnessEqual ==
    /\ m_phase = "global_done"
    /\ Len(m_in) = 2
    /\ m_in[1].confidence = <<<<7, 10>>>>
    /\ m_in[2].confidence = <<<<7, 10>>>>
    /\ Len(m_out) = 1
    /\ m_out[1].confidence = <<<<7, 10>>>>


-----------------------------------------------------------------------------
\* C14: when the detector throws on a tile (first, middle or last), run records
\* that tile's index as failed and moves to the next position of the list, and
\* from there it always reaches its end with a returned result for which every
\* tile of the list was visited: the failure does not abort the job.
C14_DetectorFailureContinues ==
    /\ [](thrown = "detect" =>
            /\ pc = "tile"
            /\ failed_tiles # <<>>
            /\ failed_tiles[Len(failed_tiles)] = tiles[idx - 1].tile_index)
    /\ [](thrown = "detect" =>
            <>(pc = "done" /\ result # <<>> /\ idx = Len(tiles) + 1))

\* The detector threw on a tile that is not the last one.
C14_Witness ==
    /\ thrown = "detect"
    /\ idx <= Len(tiles)
    /\ idx > 1

\* The detector threw on the last tile, after a tile that was processed.
C14_WitnessLast ==
    /\ thrown = "detect"
    /\ idx = Len(tiles) + 1
    /\ Len(tiles) > 1

-----------------------------------------------------------------------------
\* C15: after a cancel request that arrived while the tile at position k was
\* in work, run starts no tile after position k: it is never found working on
\* a later tile, and it does not go on to the global merge of a full pass.
C15_CancelStopsTiles ==
    cancel_requested # <<>> =>
        /\ ~(pc \in {"detected", "merged"} /\ idx > cancel_requested[1])
        /\ idx <= cancel_requested[1] + 1

-----------------------------------------------------------------------------
\* The positions of run and what holds at each of them, for the ordering of
\* C16: run is at a tile of the list or past the last one; inside a tile it
\* works on the tile at idx; it has a result exactly when it is done, and then
\* every tile was visited and the result carries the failed tile indices.
C16_Positions ==
    /\ pc \in {"tile", "detected", "merged", "done"}
    /\ idx \in 1..(Len(tiles) + 1)
    /\ pc \in {"detected", "merged"} =>
          /\ idx <= Len(tiles)
          /\ tile_idx = <<tiles[idx].tile_index>>
    /\ (pc = "done") <=> (result # <<>>)
    /\ pc = "done" =>
          /\ idx = Len(tiles) + 1
          /\ result[1].failed_tiles = failed_tiles

\* The order of the steps of run, for C16: Detect, then LocalMerge, then
\* GeoProject+Capacity, then the next tile; a failed tile goes to the next
\* tile; the global merge runs from the position past the last tile only.
C16_StepOrder ==
    \/ pc' = pc /\ idx' = idx
    \/ pc = "tile" /\ pc' = "detected" /\ idx' = idx
    \/ pc = "detected" /\ pc' = "merged" /\ idx' = idx
    \/ pc = "merged" /\ pc' = "tile" /\ idx' = idx + 1
    \/ pc = "tile" /\ idx <= Len(tiles) /\ pc' = "tile" /\ idx' = idx + 1
         /\ Len(failed_tiles') = Len(failed_tiles) + 1
    \/ pc = "tile" /\ idx = Len(tiles) + 1 /\ pc' = "done" /\ idx' = idx

\* C16: for every list of tiles run visits each tile once and in input order,
\* does Detect, LocalMerge, GeoProject+Capacity in that order within a tile,
\* runs the global merge once, after every tile was completed or marked
\* failed, and then is done with a result that carries the detections and the
\* failed tile indices.
C16_JobOrdering == []C16_Positions /\ [][C16_StepOrder]_vars

-----------------------------------------------------------------------------
(* C17 *)

\* The polygons the global merge makes of the records of all tiles.
GeoPolys == [i \in DOMAIN all_detections |-> geo_usable_polygon(all_detections[i])]

GeoUsable == {i \in DOMAIN all_detections : GeoPolys[i] # NoPolygon}

\* Per record, the records whose geographic polygon intersects its own.
IntersectNeighbours ==
    LET polys == GeoPolys
        usable == GeoUsable
    IN [i \in usable |-> {j \in usable \ {i} : Intersects(polys[i], polys[j])}]

\* Per record, the records the classifier of the per-tile merge pairs it with.
ClassifierNeighbours ==
    LET polys == GeoPolys
        usable == GeoUsable
    IN [i \in usable |->
          {j \in usable \ {i} :
              \/ polygons_overlap(polys[i], polys[j], obb_merger)
              \/ polygons_overlap(polys[j], polys[i], obb_merger)}]

\* The two records are members of one group of the global merge: they end up
\* in one output record.
SameGlobalGroup(i, j) ==
    \E g \in DOMAIN g_groups : {i, j} \subseteq Range(g_groups[g])

DifferentTiles(i, j) == all_detections[i].tile_index # all_detections[j].tile_index

C17_WitnessMerged ==
    /\ pc = "done"
    /\ g_failing = {}
    /\ \E i, j \in GeoUsable :
          /\ DifferentTiles(i, j)
          /\ Intersects(GeoPolys[i], GeoPolys[j])
          /\ SameGlobalGroup(i, j)
    /\ Len(result[1].detections) = 1

-----------------------------------------------------------------------------
\* The numeric values a merge configuration may have: thresholds within
\* [0, 1], a maximum distance above zero.
ValidConfig(cfg) ==
    /\ 0 <= cfg.iou_num /\ cfg.iou_num <= cfg.iou_den
    /\ 0 <= cfg.ov_num /\ cfg.ov_num <= cfg.ov_den
    /\ cfg.max_distance > 0

\* C18: a merge configuration with an invalid numeric value is rejected when
\* it is constructed, so no merger with such values exists, and none ever
\* serves a merge call.
C18_InvalidConfigRejected ==
    /\ ValidConfig(m_cfg)
    /\ m_phase = "local_done" => ValidConfig(m_cfg)

-----------------------------------------------------------------------------
\* [minLat, minLng, maxLat, maxLng] over the vertices ([lat, lng]) of a
\* geoPolygon.
LatLngBounds(geo_polygon) ==
    LET lats == {geo_polygon[i][1] : i \in DOMAIN geo_polygon}
        lngs == {geo_polygon[i][2] : i \in DOMAIN geo_polygon}
        least(S) == CHOOSE v \in S : \A w \in S : v <= w
        greatest(S) == CHOOSE v \in S : \A w \in S : v >= w
    IN <<least(lats), least(lngs), greatest(lats), greatest(lngs)>>

\* C19: every record of the final result, merged or not, has as its
\* geoBoundingBox the [minLat, minLng, maxLat, maxLng] of its own geoPolygon.
C19_BoundingBoxOfOwnPolygon ==
    pc = "done" =>
        \A i \in DOMAIN result[1].detections :
            LET d == result[1].detections[i]
            IN d.geoBoundingBox = LatLngBounds(d.geoPolygon)

-----------------------------------------------------------------------------
(* C20 *)

\* Twice the shoelace area of the shape of the call, in square pixels.
ShapeArea2 ==
    IF Len(c_obb) < 6 THEN 0
    ELSE LET pts == FlatToCoords(c_obb)
         IN Abs(Shoelace2(Append(pts, pts[1]), 1))

\* The area of a spot of the call's type, in hundredths of a square metre.
SpotArea100 == IF c_spot = "standard" THEN 1250 ELSE 1035

\* n = floor(area_m2 * (eff100 / 100) / spot_area), with area_m2 the shoelace
\* area times 0.05^2, that is ShapeArea2 / 800:
\* n * spot_area <= area_m2 * eff < (n + 1) * spot_area.
IsFloorAt(n, eff100) ==
    /\ n * 800 * SpotArea100 <= ShapeArea2 * eff100
    /\ ShapeArea2 * eff100 < (n + 1) * 800 * SpotArea100

\* v = max(least, floor(area_m2 * (eff100 / 100) / spot_area))
IsClampedFloor(v, least, eff100) ==
    \/ v > least /\ IsFloorAt(v, eff100)
    \/ v = least /\ \E n \in 0..least : IsFloorAt(n, eff100)

\* C20: estimate_parking_capacity returns the shoelace area times 0.05^2
\* (rounded to hundredths) as the area in square metres, max(1, floor(area *
\* 0.75 / spot_area)) as estimated_capacity and (max(0, floor(area * 0.65 /
\* spot_area)), max(1, floor(area * 0.85 / spot_area))) as capacity_range,
\* with spot_area 12.5 for "standard" and 10.35 for "compact"; the rectangle
\* of 1000 x 400 pixels has 1000 square metres and a capacity of 60.
C20_CapacityFormula ==
    c_out # <<>> =>
        LET out == c_out[1]
        IN \* hundredths of a square metre: ShapeArea2 / 8, to the nearest
           /\ Abs(8 * out.area_sq_meters - ShapeArea2) <= 4
           /\ IsClampedFloor(out.estimated_capacity, 1, 75)
           /\ IsClampedFloor(out.capacity_range[1], 0, 65)
           /\ IsClampedFloor(out.capacity_range[2], 1, 85)
           /\ (c_obb = <<0, 0, 1000, 0, 1000, 400, 0, 400>> /\ c_spot = "standard") =>
                 /\ out.area_sq_meters = 100000
                 /\ out.estimated_capacity = 60

\* The rectangle of 1000 x 400 pixels with standard spots: capacity 60.
C20_Witness ==
    /\ c_out # <<>>
    /\ c_obb = <<0, 0, 1000, 0, 1000, 400, 0, 400>>
    /\ c_spot = "standard"
    /\ c_out[1].estimated_capacity = 60
    /\ c_out[1].capacity_range = <<52, 68>>

\* A shape too small for one spot: the best estimate is raised to 1, the low
\* end of the range is 0.
C20_WitnessSmall ==
    /\ c_out # <<>>
    /\ ShapeArea2 > 0
    /\ IsFloorAt(0, 85)
    /\ c_out[1].estimated_capacity = 1
    /\ c_out[1].capacity_range = <<0, 1>>

\* Compact spots: the same rectangle holds 72.
C20_WitnessCompact ==
    /\ c_out # <<>>
    /\ c_obb = <<0, 0, 1000, 0, 1000, 400, 0, 400>>
    /\ c_spot = "compact"
    /\ c_out[1].estimated_capacity = 72
    /\ c_out[1].capacity_range = <<62, 82>>

-----------------------------------------------------------------------------
\* C21: a detection whose polygon has at least 3 points is converted from
\* that polygon, closed; any other detection that carries a box of 4 numbers
\* (polygon absent, empty, or shorter than 3 points) is converted to the
\* rectangle of its box, and takes part in the merge when that rectangle has
\* an area.
C21_AdapterSelection ==
    m_phase = "local_done" =>
        \A i \in DOMAIN m_in :
            LET det == m_in[i]
            IN IF Len(det.polygon) >= 6
               THEN detection_to_polygon(det) = CloseRing(FlatToCoords(det.polygon))
               ELSE Len(det.bbox) = 4 =>
                      /\ detection_to_polygon(det) = RectRing(det.bbox)
                      /\ PolyArea(RectRing(det.bbox)) > 0 => i \in Geometrizable

-----------------------------------------------------------------------------
-----------------------------------------------------------------------------
\* The groups of the call of which a merged record was made.
MergedGroups ==
    {g \in DOMAIN m_groups : Len(m_groups[g]) >= 2 /\ m_groups[g][1] \notin m_failing}

C24_WitnessGlobal ==
    /\ m_phase = "global_done"
    /\ 1 \in MergedGroups
    /\ m_out[1].merged_count = <<2>>
    /\ m_in_after[m_groups[1][1]].merged_count = <<>>

-----------------------------------------------------------------------------
(* C23 *)

\* The groups the per-tile merge made of the detector's output for the tile.
TileGroups == GroupsOfCall(raw, obb_merger)

\* The ring is the exterior of the part (a rectangle given by its bounds),
\* and the part is one of largest area among the parts; a union of one part
\* is that part.
IsLargestPartExterior(ring, parts) ==
    LET part == PolyBounds(ring)
    IN /\ part \in parts
       /\ \A q \in parts : RectArea(part) >= RectArea(q)
       /\ Range(ring) = Range(RectRing(part))
       /\ Cardinality(parts) = 1 => parts = {part}

\* C23: the boundary of a merged record is the exterior of the union of its
\* group's polygons when that union is one region, and the exterior of the
\* part of largest area when the union has several parts; the envelope is the
\* envelope of that part alone.  Per tile: bbox; global: the four numbers of
\* geoBoundingBox.
C23_LargestPartBoundary ==
    /\ pc = "merged" =>
          LET groups == TileGroups
          IN \A g \in DOMAIN groups :
                (Len(groups[g]) >= 2 /\ groups[g][1] \notin t_failing) =>
                    LET parts == unary_union([m \in DOMAIN groups[g] |->
                                                 usable_polygon(raw[groups[g][m]])])
                        merged == detections[GroupStart(groups, {}, g)]
                        ring == CloseRing(FlatToCoords(merged.polygon))
                    IN /\ IsLargestPartExterior(ring, parts)
                       /\ merged.bbox = PolyBounds(ring)
    /\ pc = "done" =>
          \A g \in DOMAIN g_groups :
              (Len(g_groups[g]) >= 2 /\ g_groups[g][1] \notin g_failing) =>
                  LET parts == unary_union([m \in DOMAIN g_groups[g] |->
                                  geo_usable_polygon(all_detections[g_groups[g][m]])])
                      merged == result[1].detections[GroupStart(g_groups, g_failing, g)]
                      part == PolyBounds(merged.geoPolygon)
                  IN /\ IsLargestPartExterior(merged.geoPolygon, parts)
                     /\ merged.geoBoundingBox \in
                           {part, <<part[2], part[1], part[4], part[3]>>}

\* A per-tile group whose union has two parts: BoxB alone (100 square
\* pixels) and BoxD with BoxE (110); the merged record has the boundary of
\* the larger part.
C23_Witness ==
    /\ pc = "merged"
    /\ raw = <<BoxB, BoxD, BoxE>>
    /\ t_failing = {}
    /\ Len(detections) = 1
    /\ detections[1].bbox = <<69, 0, 80, 10>>
    /\ detections[1].merged_count = <<3>>

\* A global group whose union has two parts that touch in one point.
C23_WitnessGlobal ==
    /\ pc = "done"
    /\ g_failing = {}
    /\ \E g \in DOMAIN g_groups :
          /\ Len(g_groups[g]) = 2
          /\ Cardinality(unary_union([m \in DOMAIN g_groups[g] |->
                geo_usable_polygon(all_detections[g_groups[g][m]])])) = 2

\* A group whose union is one region.
C23_WitnessSingle ==
    /\ pc = "merged"
    /\ raw = <<BoxA, BoxB>>
    /\ t_failing = {}
    /\ Len(detections) = 1
    /\ detections[1].bbox = <<0, 0, 19, 10>>

-----------------------------------------------------------------------------
(* C25 *)

\* The step is a step of run in which something raised.
RaisingStep == thrown' # "none" /\ <<pc, idx>>' # <<pc, idx>>

\* C25: a step of run in which the work on a tile raises (decoding,
\* detection, mask, vehicle count, projection or capacity) appends that tile's
\* own index to failed_tiles, once, and run goes on with the next tile; no
\* other step changes failed_tiles.  So failed_tiles is at every moment the
\* list of the indices of the tiles that raised.
C25_ExactBookkeeping ==
    [][IF RaisingStep
       THEN /\ failed_tiles' = Append(failed_tiles, tiles[idx].tile_index)
            /\ pc' = "tile"
            /\ idx' = idx + 1
       ELSE failed_tiles' = failed_tiles]_vars

-----------------------------------------------------------------------------
\* C26: in the result no detection and no mask entry bears the index of a
\* failed tile, and every tile that is not failed has exactly one mask entry.
C26_NoPartialOutput ==
    pc = "done" =>
        LET out == result[1]
            masks_of(t) == {k \in DOMAIN out.detection_masks :
                               out.detection_masks[k].tile_index = t}
        IN /\ \A t \in Range(out.failed_tiles) :
                 /\ \A i \in DOMAIN out.detections : out.detections[i].tile_index # t
                 /\ masks_of(t) = {}
           /\ \A k \in DOMAIN tiles :
                 tiles[k].tile_index \notin Range(out.failed_tiles) =>
                     Cardinality(masks_of(tiles[k].tile_index)) = 1

-----------------------------------------------------------------------------
(* C27 *)

\* Rectangle r (bounds) lies within rectangle R.
Inside(r, R) == R[1] <= r[1] /\ R[2] <= r[2] /\ r[3] <= R[3] /\ r[4] <= R[4]

\* The polygons (as bounds) of the members of a group of the tile's merge.
MemberBounds(group) == [m \in DOMAIN group |-> PolyBounds(usable_polygon(raw[group[m]]))]

\* The groups of the tile's merge of which a merged record was made.
MergedTileGroups(groups) ==
    {g \in DOMAIN groups : Len(groups[g]) >= 2 /\ groups[g][1] \notin t_failing}

\* C27 as stated: the merged polygon of every group merged per tile covers
\* the polygon of every member, and the merged bbox contains every member's
\* bbox, also when members are linked by the distance rule only.
C27_CoversEveryMember ==
    pc = "merged" =>
        LET groups == TileGroups
        IN \A g \in MergedTileGroups(groups) :
              LET merged == detections[GroupStart(groups, {}, g)]
                  covered == PolyBounds(CloseRing(FlatToCoords(merged.polygon)))
                  bounds == MemberBounds(groups[g])
              IN \A m \in DOMAIN groups[g] :
                    /\ Inside(bounds[m], covered)
                    /\ Inside(raw[groups[g][m]].bbox, merged.bbox)

\* C27: the merged polygon covers the polygons of the members that lie in the
\* part of the union it was taken from, at least one; a member outside that
\* part shares no more than a point with it.  When the union of the group is
\* one region, the merged polygon covers every member's polygon and the merged
\* bbox contains every member's bbox.
C27_CoversMembersOfPart ==
    pc = "merged" =>
        LET groups == TileGroups
        IN \A g \in MergedTileGroups(groups) :
              LET merged == detections[GroupStart(groups, {}, g)]
                  covered == PolyBounds(CloseRing(FlatToCoords(merged.polygon)))
                  bounds == MemberBounds(groups[g])
                  one_region == PartOf({bounds[1]}, Range(bounds)) = Range(bounds)
              IN /\ \A m \in DOMAIN groups[g] :
                       Inside(bounds[m], covered) \/ ~SamePart(bounds[m], covered)
                 /\ \E m \in DOMAIN groups[g] : Inside(bounds[m], covered)
                 /\ one_region =>
                       \A m \in DOMAIN groups[g] :
                           /\ Inside(bounds[m], covered)
                           /\ Inside(raw[groups[g][m]].bbox, merged.bbox)

\* A merged group with a member that the distance rule alone links to the
\* others: the merged polygon covers the two that overlap and not the third.
C27_Witness ==
    /\ pc = "merged"
    /\ t_failing = {}
    /\ TileGroups = <<<<1, 2, 3>>>>
    /\ LET bounds == MemberBounds(<<1, 2, 3>>)
       IN /\ ~Inside(bounds[1], detections[1].bbox)
          /\ Inside(bounds[2], detections[1].bbox)
          /\ Inside(bounds[3], detections[1].bbox)

\* A merged group whose union is one region: every member is covered.
C27_WitnessOneRegion ==
    /\ pc = "merged"
    /\ t_failing = {}
    /\ TileGroups = <<<<1, 2>>>>
    /\ LET bounds == MemberBounds(<<1, 2>>)
       IN /\ Inside(bounds[1], detections[1].bbox)
          /\ Inside(bounds[2], detections[1].bbox)
          /\ bounds[1] # detections[1].bbox

-----------------------------------------------------------------------------
(* C28 *)

\* The merged_count values of a list of records, summed, a record without
\* the field counting 1.
CountSum(dets) == SeqSum([k \in DOMAIN dets |-> MergedCountOf(dets[k])])

\* The step of run that runs the global merge and returns.
ReturnStep == pc = "tile" /\ pc' = "done"

\* C28: the records a tile that did not fail hands on carry, in their
\* merged_count values, every detection the detector produced on the tile;
\* the global merge keeps that sum; so the sum over the returned detections
\* is the number of detections produced on the tiles that did not fail.
\* Neither merge returns more records than it was given.
C28_CountConservation ==
    [][/\ BuildStep => CountSum(BuiltNow) = Len(raw)
       /\ (pc = "detected" /\ pc' = "merged") => Len(detections') <= Len(detections)
       /\ ReturnStep =>
             /\ CountSum(result'[1].detections) = CountSum(all_detections)
             /\ Len(result'[1].detections) <= Len(all_detections)]_vars

-----------------------------------------------------------------------------
(* C29 *)

\* C29: in the dict run returns, total_spaces is the number of parking-space
\* detections of the tiles that did not fail, and total_vehicles_detected is
\* the sum of vehicle_count over the returned detections; both are non-zero
\* when detections with vehicles are returned.
C29_TotalsMatchDetections ==
    pc = "done" =>
        LET returned == result[1].detections
            vehicles == SeqSum([k \in DOMAIN returned |-> returned[k].vehicle_count])
        IN /\ result[1].total_spaces = Len(all_detections)
           /\ result[1].total_vehicles_detected = vehicles
           /\ vehicles > 0 => /\ result[1].total_spaces > 0
                              /\ result[1].total_vehicles_detected > 0

-----------------------------------------------------------------------------
(* C30 *)

\* The step in which task t ends.
Finishes(t) == Running(t) /\ ~Running(t)'

\* The step is a cancel_analysis request for job_id.
CancelServed(job_id) ==
    /\ cancel_reply' # cancel_reply \/ tasks' # tasks
    /\ active_tasks' = active_tasks
    /\ Len(tasks') = Len(tasks)
    /\ cancel_reply' # <<>> /\ cancel_reply'[1].job_id = job_id
    /\ \A t \in DOMAIN tasks : ~Finishes(t)

\* C30: under every interleaving of analyze-tiles and cancel-analysis
\* requests, two analyze requests with one job_id included, every task that
\* has not ended is registered under its job_id, a task that ends removes no
\* registration but its own, and cancel_analysis(job_id) answers
\* "cancelled" exactly when a task of that job_id has not ended, and cancels
\* that task.
C30_JobRegistry ==
    [][/\ \A t \in DOMAIN tasks' : Running(t)' => active_tasks'[tasks'[t].job_id] = t
       /\ \A t \in DOMAIN tasks :
             Finishes(t) =>
                 \A j \in JobIds :
                     active_tasks[j] # t => active_tasks'[j] = active_tasks[j]
       /\ \A j \in JobIds :
             CancelServed(j) =>
                 LET running == {t \in DOMAIN tasks : Running(t) /\ tasks[t].job_id = j}
                 IN /\ cancel_reply'[1].status = "cancelled" <=> running # {}
                    /\ \A t \in running : tasks'[t].state = "cancelling"]_vars

====
